---- MODULE Spec2Model ----
(***************************************************************************)
(* Pointer-level model of the Fibonacci heap of include/fibheap.h, built   *)
(* on the intrusive circular doubly-linked lists of include/list.h.        *)
(*                                                                         *)
(* Memory is a set of list_head cells, each with a next and a prev field.  *)
(* A cell is named by its address, a positive integer:                     *)
(*     ListOf(k)   &node_k->list    (sibling link of node k)               *)
(*     ChildOf(k)  &node_k->child   (head of node k's child list)          *)
(*     RootOf(h)   &heap_h->root_list                                      *)
(* Nodes are 1..MemNodes in allocation order, NULL is 0.                   *)
(*                                                                         *)
(* The red-black tree of src/rbtree.c is a record of its node fields over  *)
(* the addresses 1..nil, and strmatch_rk of src/strmatch.c an operator on  *)
(* sequences of bytes.                                                     *)
(***************************************************************************)
EXTENDS Integers, Sequences, FiniteSets, TLC

\* ------------------------------------------------------------- bounds ----

\* Number of nodes the client may allocate.
NumNodes == 5

\* Client keys are 1..MaxValue.
MaxValue == 2

\* Number of nodes allocated to build the tree of three levels under its
\* root that a cascading cut of two nodes needs.
CascadeNodes == 9

\* Nodes the memory has room for.
MemNodes == IF CascadeNodes > NumNodes THEN CascadeNodes ELSE NumNodes

Nodes  == 1..MemNodes
Values == 1..MaxValue
Heaps  == {1, 2}
NULL   == 0

\* offsetof: node k's list member lies at address k, its child member at
\* MemNodes + k; heap h's root_list at 2 * MemNodes + h.
ListOf(k)  == k
ChildOf(k) == MemNodes + k
RootOf(h)  == 2 * MemNodes + h

Addr == 1..(2 * MemNodes + 2)

\* ---------------------------------------------------------- variables ----

VARIABLES
    next,      \* list_head.next of every cell
    prev,      \* list_head.prev of every cell
    parent,    \* fibheap_node.parent
    degree,    \* fibheap_node.degree: the packed word (mark bit | degree)
    value,     \* key of the word fibheap_node.value points at
    heap_n,    \* fibheap.n
    oob,       \* consolidate indexed its table A outside 0..maxdeg
    made,      \* number of nodes allocated so far (make_fibheap_node calls)
    owner,     \* client's book-keeping: the heap a node was put in, or NULL
    merged,    \* heaps whose roots were spliced into another heap by union
    rb,        \* the red-black tree t and its nodes (rbtree.c)
    rb_made,   \* number of tree nodes allocated so far
    rb_in,     \* client's book-keeping: nodes inserted and not deleted
    sm         \* one call of strmatch_rk: its arguments and its result

heapvars == <<next, prev, parent, degree, value, heap_n, oob, made, owner,
              merged>>

rbvars == <<rb, rb_made, rb_in>>

vars == <<heapvars, rbvars, sm>>

\* The C memory the heap code reads and writes, as one record.
Mem == [next |-> next, prev |-> prev, parent |-> parent, degree |-> degree,
        value |-> value, n |-> heap_n, oob |-> oob]

SetMem(m) ==
    /\ next'   = m.next
    /\ prev'   = m.prev
    /\ parent' = m.parent
    /\ degree' = m.degree
    /\ value'  = m.value
    /\ heap_n' = m.n
    /\ oob'    = m.oob

\* ------------------------------------------------------------- list.h ----

\* INIT_LIST_HEAD(ptr)
INIT_LIST_HEAD(m, ptr) ==
    LET m1 == [m EXCEPT !.next[ptr] = ptr]
    IN  [m1 EXCEPT !.prev[ptr] = ptr]

\* container_of(ptr, struct fibheap_node, list): the node whose list member
\* lies at ptr.  Applied to a cell that is no node's list member (the head of
\* an empty list) the C expression yields a pointer to no node at all.
\* The model writes that pointer as the negated address.
list_entry(ptr) == IF ptr \in Nodes THEN ptr ELSE -ptr

list_first_entry(m, head) == list_entry(m.next[head])

__list_add(m, new, pv, nx) ==
    LET m1 == [m  EXCEPT !.prev[nx]  = new]
        m2 == [m1 EXCEPT !.next[new] = nx]
        m3 == [m2 EXCEPT !.prev[new] = pv]
    IN  [m3 EXCEPT !.next[pv] = new]

__list_del(m, pv, nx) ==
    LET m1 == [m EXCEPT !.prev[nx] = pv]
    IN  [m1 EXCEPT !.next[pv] = nx]

\* __list_splice without next->prev = last.
__list_splice_noback(m, list, pv, nx) ==
    LET first == m.next[list]
        lst   == m.prev[list]
        m1 == [m  EXCEPT !.prev[first] = pv]
        m2 == [m1 EXCEPT !.next[pv]    = first]
    IN  [m2 EXCEPT !.next[lst]   = nx]

__list_splice(m, list, pv, nx) ==
    LET first == m.next[list]
        lst   == m.prev[list]
        m1 == [m  EXCEPT !.prev[first] = pv]
        m2 == [m1 EXCEPT !.next[pv]    = first]
        m3 == [m2 EXCEPT !.next[lst]   = nx]
    IN  [m3 EXCEPT !.prev[nx] = lst]

list_add(m, new, head) == __list_add(m, new, head, m.next[head])

list_add_tail(m, new, head) == __list_add(m, new, m.prev[head], head)

list_del(m, entry) == __list_del(m, m.prev[entry], m.next[entry])

list_move(m, list, head) ==
    LET m1 == __list_del(m, m.prev[list], m.next[list])
    IN  list_add(m1, list, head)

list_empty(m, head) == m.next[head] = head

\* list_splice_tail that splices nothing.
list_splice_tail_none(m, list, head) == m

\* list_splice_tail that leaves list an empty ring afterwards.
list_splice_tail_init(m, list, head) ==
    IF ~list_empty(m, list)
    THEN LET m1 == __list_splice(m, list, m.prev[head], head)
         IN  [m1 EXCEPT !.next[list] = list, !.prev[list] = list]
    ELSE m

list_splice_tail(m, list, head) ==
    IF ~list_empty(m, list)
    THEN __list_splice(m, list, m.prev[head], head)
    ELSE m

\* ---------------------------------------------------------- fibheap.h ----

\* The client's comparator (word_cmp): negative iff a outranks b.
cmp(a, b) == (IF a > b THEN 1 ELSE 0) - (IF a < b THEN 1 ELSE 0)

\* The unsigned int degree word, 32 bits wide: bit last_bit = 31 is the mark,
\* bits 0..30 the degree.  A word is held as [mark, low] and stands for
\* mark * 2^31 + low.  LowMask is ~(1 << last_bit).
LowMask == 2147483647

Word(mark, low) == [mark |-> mark, low |-> low]

\* w + 1 and w - 1 modulo 2^32: a carry out of (borrow from) bit 30 flips
\* the mark bit.
WordInc(w) == IF w.low = LowMask THEN Word(1 - w.mark, 0)
              ELSE Word(w.mark, w.low + 1)

WordDec(w) == IF w.low = 0 THEN Word(1 - w.mark, LowMask)
              ELSE Word(w.mark, w.low - 1)

FIBHEAP_GET_DEGREE(w) == w.low

FIBHEAP_SET_MARK(w) == Word(1, w.low)

\* FIBHEAP_RESET_MARK that clears the whole word.
FIBHEAP_RESET_MARK_word(w) == Word(0, 0)

FIBHEAP_RESET_MARK(w) == Word(0, w.low)

FIBHEAP_TEST_MARK(w) == w.mark # 0

FIBHEAP_REMOVE_FROM_LIST(m, node) == list_del(m, ListOf(node))

FIBHEAP_INSERT_INTO_LIST(m, node, list) == list_add(m, ListOf(node), list)

FIBHEAP_INSERT_INTO_LIST_TAIL(m, node, list) ==
    list_add_tail(m, ListOf(node), list)

FIBHEAP_GET_MIN_NODE(m, h) == list_first_entry(m, RootOf(h))

FIBHEAP_BECOME_MIN_NODE(m, node, h) == list_move(m, ListOf(node), RootOf(h))

make_fibheap_node(m, node, v) ==
    LET m1 == [m EXCEPT !.parent[node] = NULL]
        m2 == INIT_LIST_HEAD(m1, ChildOf(node))
        m3 == INIT_LIST_HEAD(m2, ListOf(node))
        m4 == [m3 EXCEPT !.value[node] = v]
    IN  [m4 EXCEPT !.degree[node] = Word(0, 0)]

\* Fibonacci and Lucas numbers: phi^k = (Lucas(k) + Fib(k) * sqrt(5)) / 2.
RECURSIVE Fib(_)
Fib(k) == IF k < 2 THEN k ELSE Fib(k - 1) + Fib(k - 2)

RECURSIVE Lucas(_)
Lucas(k) == IF k = 0 THEN 2 ELSE IF k = 1 THEN 1
            ELSE Lucas(k - 1) + Lucas(k - 2)

\* phi^k <= n, in integers.
PhiPowLeq(k, n) ==
    LET r == 2 * n - Lucas(k)
    IN  r >= 0 /\ 5 * Fib(k) * Fib(k) <= r * r

\* ubdeg(n) = (int) floor(log(n) / log(phi)).  For n < 1 the logarithm is
\* -inf or NaN and the conversion to int has no defined result; the model
\* then gives consolidate an empty table, so that every access is flagged.
\* ubdeg one lower: floor(log_phi(n)) - 1.
ubdeg_short(n) ==
    IF n < 1 THEN -1
    ELSE (CHOOSE k \in 0..n : PhiPowLeq(k, n) /\ ~PhiPowLeq(k + 1, n)) - 1

ubdeg(n) ==
    IF n < 1 THEN -1
    ELSE CHOOSE k \in 0..n : PhiPowLeq(k, n) /\ ~PhiPowLeq(k + 1, n)

\* link without x->degree++.
link_nodeg(m, y, x) ==
    LET m1 == FIBHEAP_REMOVE_FROM_LIST(m, y)
        m2 == FIBHEAP_INSERT_INTO_LIST(m1, y, ChildOf(x))
        m3 == [m2 EXCEPT !.parent[y] = x]
    IN  [m3 EXCEPT !.degree[y] = FIBHEAP_RESET_MARK(@)]

\* link without y->parent = x.
link_noparent(m, y, x) ==
    LET m1 == FIBHEAP_REMOVE_FROM_LIST(m, y)
        m2 == FIBHEAP_INSERT_INTO_LIST(m1, y, ChildOf(x))
        m4 == [m2 EXCEPT !.degree[x] = WordInc(@)]
    IN  [m4 EXCEPT !.degree[y] = FIBHEAP_RESET_MARK(@)]

link(m, y, x) ==
    LET m1 == FIBHEAP_REMOVE_FROM_LIST(m, y)
        m2 == FIBHEAP_INSERT_INTO_LIST(m1, y, ChildOf(x))
        m3 == [m2 EXCEPT !.parent[y] = x]
        m4 == [m3 EXCEPT !.degree[x] = WordInc(@)]
    IN  [m4 EXCEPT !.degree[y] = FIBHEAP_RESET_MARK(@)]

fibheap_is_empty(m, h) == list_empty(m, RootOf(h))

\* A[d] of consolidate's table, allocated with slots 0..maxdeg.  A read past
\* the allocation is flagged by the caller; here it reads as NULL.
TableGet(A, d) == IF d \in DOMAIN A THEN A[d] ELSE NULL

TablePut(A, d, x) == IF d \in DOMAIN A THEN [A EXCEPT ![d] = x] ELSE A

\* The collision loop with the comparison turned round: the root that ranks
\* lower becomes the parent.
RECURSIVE consolidate_collide_rev(_, _, _, _, _)
consolidate_collide_rev(m, h, A, x, d) ==
    LET mo == [m EXCEPT !.oob = @ \/ d \notin DOMAIN A]
    IN  IF TableGet(A, d) = NULL
        THEN [m |-> mo, A |-> A, x |-> x, d |-> d]
        ELSE LET y0   == TableGet(A, d)
                 swap == cmp(mo.value[y0], mo.value[x]) > 0
                 x1   == IF swap THEN y0 ELSE x
                 y1   == IF swap THEN x ELSE y0
                 m1   == link(mo, y1, x1)
             IN  consolidate_collide_rev(m1, h, TablePut(A, d, NULL), x1,
                                         d + 1)

\* The collision loop exchanging x and y also when they compare equal.
RECURSIVE consolidate_collide_tie(_, _, _, _, _)
consolidate_collide_tie(m, h, A, x, d) ==
    LET mo == [m EXCEPT !.oob = @ \/ d \notin DOMAIN A]
    IN  IF TableGet(A, d) = NULL
        THEN [m |-> mo, A |-> A, x |-> x, d |-> d]
        ELSE LET y0   == TableGet(A, d)
                 swap == cmp(mo.value[y0], mo.value[x]) <= 0
                 x1   == IF swap THEN y0 ELSE x
                 y1   == IF swap THEN x ELSE y0
                 m1   == link(mo, y1, x1)
             IN  consolidate_collide_tie(m1, h, TablePut(A, d, NULL), x1,
                                         d + 1)

\* The while (A[d]) loop of consolidate for the root x of degree d.
RECURSIVE consolidate_collide(_, _, _, _, _)
consolidate_collide(m, h, A, x, d) ==
    LET mo == [m EXCEPT !.oob = @ \/ d \notin DOMAIN A]
    IN  IF TableGet(A, d) = NULL
        THEN [m |-> mo, A |-> A, x |-> x, d |-> d]
        ELSE LET y0   == TableGet(A, d)
                 swap == cmp(mo.value[y0], mo.value[x]) < 0
                 x1   == IF swap THEN y0 ELSE x
                 y1   == IF swap THEN x ELSE y0
                 m1   == link(mo, y1, x1)
             IN  consolidate_collide(m1, h, TablePut(A, d, NULL), x1, d + 1)

\* list_for_each_entry_safe(x, next, &h->root_list, list) of consolidate:
\* pos is the cell of x, nxt the cell saved before the body ran.
RECURSIVE consolidate_scan(_, _, _, _, _)
consolidate_scan(m, h, A, pos, nxt) ==
    IF pos = RootOf(h)
    THEN [m |-> m, A |-> A]
    ELSE LET x  == list_entry(pos)
             r  == consolidate_collide(m, h, A, x,
                                       FIBHEAP_GET_DEGREE(m.degree[x]))
             mo == [r.m EXCEPT !.oob = @ \/ r.d \notin DOMAIN A]
             A1 == TablePut(r.A, r.d, r.x)
         IN  consolidate_scan(mo, h, A1, nxt, mo.next[nxt])

\* The second loop of consolidate without the minimum update: every root is
\* appended, whatever its key.
RECURSIVE consolidate_rebuild_tail(_, _, _, _, _)
consolidate_rebuild_tail(m, h, A, i, maxdeg) ==
    IF i > maxdeg
    THEN m
    ELSE IF A[i] = NULL
    THEN consolidate_rebuild_tail(m, h, A, i + 1, maxdeg)
    ELSE LET m1 == FIBHEAP_INSERT_INTO_LIST_TAIL(m, A[i], RootOf(h))
             m2 == [m1 EXCEPT !.parent[A[i]] = NULL]
         IN  consolidate_rebuild_tail(m2, h, A, i + 1, maxdeg)

\* The second loop of consolidate started at slot 1: a root of degree 0 is
\* left out of the new root list.
RECURSIVE consolidate_rebuild_from1(_, _, _, _, _)
consolidate_rebuild_from1(m, h, A, i, maxdeg) ==
    IF i > maxdeg
    THEN m
    ELSE IF i = 0 \/ A[i] = NULL
    THEN consolidate_rebuild_from1(m, h, A, i + 1, maxdeg)
    ELSE LET m1 == IF fibheap_is_empty(m, h)
                   THEN FIBHEAP_INSERT_INTO_LIST(m, A[i], RootOf(h))
                   ELSE LET t   == FIBHEAP_INSERT_INTO_LIST_TAIL(m, A[i],
                                                                 RootOf(h))
                            min == FIBHEAP_GET_MIN_NODE(t, h)
                        IN  IF cmp(t.value[A[i]], t.value[min]) < 0
                            THEN FIBHEAP_BECOME_MIN_NODE(t, A[i], h)
                            ELSE t
             m2 == [m1 EXCEPT !.parent[A[i]] = NULL]
         IN  consolidate_rebuild_from1(m2, h, A, i + 1, maxdeg)

\* The second loop of consolidate: the root list rebuilt from A[i..maxdeg].
RECURSIVE consolidate_rebuild(_, _, _, _, _)
consolidate_rebuild(m, h, A, i, maxdeg) ==
    IF i > maxdeg
    THEN m
    ELSE IF A[i] = NULL
    THEN consolidate_rebuild(m, h, A, i + 1, maxdeg)
    ELSE LET m1 == IF fibheap_is_empty(m, h)
                   THEN FIBHEAP_INSERT_INTO_LIST(m, A[i], RootOf(h))
                   ELSE LET t   == FIBHEAP_INSERT_INTO_LIST_TAIL(m, A[i],
                                                                 RootOf(h))
                            min == FIBHEAP_GET_MIN_NODE(t, h)
                        IN  IF cmp(t.value[A[i]], t.value[min]) < 0
                            THEN FIBHEAP_BECOME_MIN_NODE(t, A[i], h)
                            ELSE t
             m2 == [m1 EXCEPT !.parent[A[i]] = NULL]
         IN  consolidate_rebuild(m2, h, A, i + 1, maxdeg)

consolidate(m, h) ==
    LET maxdeg == ubdeg(m.n[h])
        A0     == [i \in 0..maxdeg |-> NULL]
        first  == m.next[RootOf(h)]
        s      == consolidate_scan(m, h, A0, first, m.next[first])
        m1     == INIT_LIST_HEAD(s.m, RootOf(h))
    IN  consolidate_rebuild(m1, h, s.A, 0, maxdeg)

\* cut without y->degree--.
cut_nodec(m, h, x, y) ==
    LET m1 == FIBHEAP_REMOVE_FROM_LIST(m, x)
        m3 == FIBHEAP_INSERT_INTO_LIST_TAIL(m1, x, RootOf(h))
        m4 == [m3 EXCEPT !.parent[x] = NULL]
    IN  [m4 EXCEPT !.degree[x] = FIBHEAP_RESET_MARK(@)]

\* cut without x->parent = NULL.
cut_keepparent(m, h, x, y) ==
    LET m1 == FIBHEAP_REMOVE_FROM_LIST(m, x)
        m2 == [m1 EXCEPT !.degree[y] = WordDec(@)]
        m3 == FIBHEAP_INSERT_INTO_LIST_TAIL(m2, x, RootOf(h))
    IN  [m3 EXCEPT !.degree[x] = FIBHEAP_RESET_MARK(@)]

cut(m, h, x, y) ==
    LET m1 == FIBHEAP_REMOVE_FROM_LIST(m, x)
        m2 == [m1 EXCEPT !.degree[y] = WordDec(@)]
        m3 == FIBHEAP_INSERT_INTO_LIST_TAIL(m2, x, RootOf(h))
        m4 == [m3 EXCEPT !.parent[x] = NULL]
    IN  [m4 EXCEPT !.degree[x] = FIBHEAP_RESET_MARK(@)]

\* cascading_cut that cuts a marked y and goes no further.
cascading_cut_once(m, h, y) ==
    LET z == m.parent[y]
    IN  IF z # NULL
        THEN IF FIBHEAP_TEST_MARK(m.degree[y])
             THEN cut(m, h, y, z)
             ELSE [m EXCEPT !.degree[y] = FIBHEAP_SET_MARK(@)]
        ELSE m

RECURSIVE cascading_cut(_, _, _)
cascading_cut(m, h, y) ==
    LET z == m.parent[y]
    IN  IF z # NULL
        THEN IF FIBHEAP_TEST_MARK(m.degree[y])
             THEN cascading_cut(cut(m, h, y, z), h, z)
             ELSE [m EXCEPT !.degree[y] = FIBHEAP_SET_MARK(@)]
        ELSE m

\* fibheap_insert that leaves a new minimum at the tail of the root list.
fibheap_insert_tail(m, h, x) ==
    LET m1 == IF fibheap_is_empty(m, h)
              THEN FIBHEAP_INSERT_INTO_LIST(m, x, RootOf(h))
              ELSE FIBHEAP_INSERT_INTO_LIST_TAIL(m, x, RootOf(h))
    IN  [m1 EXCEPT !.n[h] = @ + 1]

\* fibheap_insert without h->n++.
fibheap_insert_nocount(m, h, x) ==
    IF fibheap_is_empty(m, h)
    THEN FIBHEAP_INSERT_INTO_LIST(m, x, RootOf(h))
    ELSE LET t   == FIBHEAP_INSERT_INTO_LIST_TAIL(m, x, RootOf(h))
             min == FIBHEAP_GET_MIN_NODE(t, h)
         IN  IF cmp(t.value[x], t.value[min]) < 0
             THEN FIBHEAP_BECOME_MIN_NODE(t, x, h)
             ELSE t

\* fibheap_insert that makes the new node the minimum on a tie as well.
fibheap_insert_tie(m, h, x) ==
    LET m1 == IF fibheap_is_empty(m, h)
              THEN FIBHEAP_INSERT_INTO_LIST(m, x, RootOf(h))
              ELSE LET t   == FIBHEAP_INSERT_INTO_LIST_TAIL(m, x, RootOf(h))
                       min == FIBHEAP_GET_MIN_NODE(t, h)
                   IN  IF cmp(t.value[x], t.value[min]) <= 0
                       THEN FIBHEAP_BECOME_MIN_NODE(t, x, h)
                       ELSE t
    IN  [m1 EXCEPT !.n[h] = @ + 1]

fibheap_insert(m, h, x) ==
    LET m1 == IF fibheap_is_empty(m, h)
              THEN FIBHEAP_INSERT_INTO_LIST(m, x, RootOf(h))
              ELSE LET t   == FIBHEAP_INSERT_INTO_LIST_TAIL(m, x, RootOf(h))
                       min == FIBHEAP_GET_MIN_NODE(t, h)
                   IN  IF cmp(t.value[x], t.value[min]) < 0
                       THEN FIBHEAP_BECOME_MIN_NODE(t, x, h)
                       ELSE t
    IN  [m1 EXCEPT !.n[h] = @ + 1]

fibheap_minimum(m, h) == FIBHEAP_GET_MIN_NODE(m, h)

\* The promotion loop that promotes nothing: z's children stay behind.
extract_promote_none(m, h, head, pos, nxt) == m

\* list_for_each_entry_safe(x, next, &z->child, list) of fibheap_extract_min.
RECURSIVE extract_promote(_, _, _, _, _)
extract_promote(m, h, head, pos, nxt) ==
    IF pos = head
    THEN m
    ELSE LET x  == list_entry(pos)
             m1 == FIBHEAP_INSERT_INTO_LIST_TAIL(m, x, RootOf(h))
             m2 == [m1 EXCEPT !.parent[x] = NULL]
         IN  extract_promote(m2, h, head, nxt, m2.next[nxt])

\* fibheap_extract_min without h->n--.
fibheap_extract_min_nodec(m, h) ==
    IF fibheap_is_empty(m, h)
    THEN [m |-> m, ret |-> NULL]
    ELSE LET z  == FIBHEAP_GET_MIN_NODE(m, h)
             m1 == IF ~list_empty(m, ChildOf(z))
                   THEN LET first == m.next[ChildOf(z)]
                        IN  extract_promote(m, h, ChildOf(z), first,
                                            m.next[first])
                   ELSE m
             m2 == FIBHEAP_REMOVE_FROM_LIST(m1, z)
             m3 == IF ~fibheap_is_empty(m2, h) THEN consolidate(m2, h) ELSE m2
         IN  [m |-> m3, ret |-> z]

\* fibheap_extract_min that leaves z in the root list.
fibheap_extract_min_keep(m, h) ==
    IF fibheap_is_empty(m, h)
    THEN [m |-> m, ret |-> NULL]
    ELSE LET z  == FIBHEAP_GET_MIN_NODE(m, h)
             m1 == IF ~list_empty(m, ChildOf(z))
                   THEN LET first == m.next[ChildOf(z)]
                        IN  extract_promote(m, h, ChildOf(z), first,
                                            m.next[first])
                   ELSE m
             m3 == IF ~fibheap_is_empty(m1, h) THEN consolidate(m1, h) ELSE m1
         IN  [m |-> [m3 EXCEPT !.n[h] = @ - 1], ret |-> z]

\* fibheap_extract_min with h->n-- ahead of the test for an empty heap.
fibheap_extract_min_decfirst(m, h) ==
    LET m0 == [m EXCEPT !.n[h] = @ - 1]
    IN  IF fibheap_is_empty(m0, h)
        THEN [m |-> m0, ret |-> NULL]
        ELSE LET z  == FIBHEAP_GET_MIN_NODE(m, h)
                 m1 == IF ~list_empty(m, ChildOf(z))
                       THEN LET first == m.next[ChildOf(z)]
                            IN  extract_promote(m, h, ChildOf(z), first,
                                                m.next[first])
                       ELSE m
                 m2 == FIBHEAP_REMOVE_FROM_LIST(m1, z)
                 m3 == IF ~fibheap_is_empty(m2, h) THEN consolidate(m2, h)
                       ELSE m2
             IN  [m |-> [m3 EXCEPT !.n[h] = @ - 1], ret |-> z]

\* fibheap_extract_min: the memory afterwards and the pointer returned.
fibheap_extract_min(m, h) ==
    IF fibheap_is_empty(m, h)
    THEN [m |-> m, ret |-> NULL]
    ELSE LET z  == FIBHEAP_GET_MIN_NODE(m, h)
             m1 == IF ~list_empty(m, ChildOf(z))
                   THEN LET first == m.next[ChildOf(z)]
                        IN  extract_promote(m, h, ChildOf(z), first,
                                            m.next[first])
                   ELSE m
             m2 == FIBHEAP_REMOVE_FROM_LIST(m1, z)
             m3 == IF ~fibheap_is_empty(m2, h) THEN consolidate(m2, h) ELSE m2
         IN  [m |-> [m3 EXCEPT !.n[h] = @ - 1], ret |-> z]

\* fibheap_minimum written as an extraction followed by a re-insertion.
fibheap_minimum_reinsert(m, h) ==
    IF fibheap_is_empty(m, h)
    THEN [m |-> m, ret |-> FIBHEAP_GET_MIN_NODE(m, h)]
    ELSE LET r == fibheap_extract_min(m, h)
         IN  [m |-> fibheap_insert(r.m, h, r.ret), ret |-> r.ret]

\* The call fibheap_minimum(h) as its caller sees it: the memory afterwards
\* and the pointer returned.  The body is one return statement that reads
\* h->root_list.next and assigns nothing.
fibheap_minimum_call(m, h) == [m |-> m, ret |-> FIBHEAP_GET_MIN_NODE(m, h)]

\* fibheap_union that prefers heap2's minimum on a tie.
fibheap_union_tie(m, heap1, heap2) ==
    IF heap2 = NULL \/ (heap2 # NULL /\ fibheap_is_empty(m, heap2))
    THEN [m |-> m, ret |-> heap1]
    ELSE IF heap1 = NULL \/ (heap1 # NULL /\ fibheap_is_empty(m, heap1))
    THEN [m |-> m, ret |-> heap2]
    ELSE LET h1 == FIBHEAP_GET_MIN_NODE(m, heap1)
             h2 == FIBHEAP_GET_MIN_NODE(m, heap2)
             m1 == list_splice_tail(m, RootOf(heap2), RootOf(heap1))
             m2 == IF cmp(m1.value[h2], m1.value[h1]) <= 0
                   THEN FIBHEAP_BECOME_MIN_NODE(m1, h2, heap1)
                   ELSE m1
         IN  [m |-> [m2 EXCEPT !.n[heap1] = @ + m2.n[heap2]], ret |-> heap1]

\* fibheap_union that leaves heap2's minimum where the splice put it.
fibheap_union_nomin(m, heap1, heap2) ==
    IF heap2 = NULL \/ (heap2 # NULL /\ fibheap_is_empty(m, heap2))
    THEN [m |-> m, ret |-> heap1]
    ELSE IF heap1 = NULL \/ (heap1 # NULL /\ fibheap_is_empty(m, heap1))
    THEN [m |-> m, ret |-> heap2]
    ELSE LET m1 == list_splice_tail(m, RootOf(heap2), RootOf(heap1))
         IN  [m |-> [m1 EXCEPT !.n[heap1] = @ + m1.n[heap2]], ret |-> heap1]

\* fibheap_union that returns heap1 whichever heap is empty.
fibheap_union_first(m, heap1, heap2) ==
    IF heap2 = NULL \/ (heap2 # NULL /\ fibheap_is_empty(m, heap2))
    THEN [m |-> m, ret |-> heap1]
    ELSE IF heap1 = NULL \/ (heap1 # NULL /\ fibheap_is_empty(m, heap1))
    THEN [m |-> m, ret |-> heap1]
    ELSE LET h1 == FIBHEAP_GET_MIN_NODE(m, heap1)
             h2 == FIBHEAP_GET_MIN_NODE(m, heap2)
             m1 == list_splice_tail(m, RootOf(heap2), RootOf(heap1))
             m2 == IF cmp(m1.value[h2], m1.value[h1]) < 0
                   THEN FIBHEAP_BECOME_MIN_NODE(m1, h2, heap1)
                   ELSE m1
         IN  [m |-> [m2 EXCEPT !.n[heap1] = @ + m2.n[heap2]], ret |-> heap1]

\* fibheap_union for two heaps that exist; a NULL argument is handled by the
\* action, which has no heap to read.
fibheap_union(m, heap1, heap2) ==
    IF heap2 = NULL \/ (heap2 # NULL /\ fibheap_is_empty(m, heap2))
    THEN [m |-> m, ret |-> heap1]
    ELSE IF heap1 = NULL \/ (heap1 # NULL /\ fibheap_is_empty(m, heap1))
    THEN [m |-> m, ret |-> heap2]
    ELSE LET h1 == FIBHEAP_GET_MIN_NODE(m, heap1)
             h2 == FIBHEAP_GET_MIN_NODE(m, heap2)
             m1 == list_splice_tail(m, RootOf(heap2), RootOf(heap1))
             m2 == IF cmp(m1.value[h2], m1.value[h1]) < 0
                   THEN FIBHEAP_BECOME_MIN_NODE(m1, h2, heap1)
                   ELSE m1
         IN  [m |-> [m2 EXCEPT !.n[heap1] = @ + m2.n[heap2]], ret |-> heap1]

\* fibheap_decrease that cuts but never moves x to the head of the roots.
fibheap_decrease_nomin(m, h, x) ==
    LET y == m.parent[x]
    IN  IF y # NULL /\ cmp(m.value[x], m.value[y]) < 0
        THEN cascading_cut(cut(m, h, x, y), h, y)
        ELSE m

\* fibheap_decrease that never cuts x from its parent.
fibheap_decrease_nocut(m, h, x) ==
    LET min == FIBHEAP_GET_MIN_NODE(m, h)
    IN  IF cmp(m.value[x], m.value[min]) < 0
        THEN FIBHEAP_BECOME_MIN_NODE(m, x, h)
        ELSE m

\* fibheap_decrease that cuts x and leaves its ancestors alone.
fibheap_decrease_nocascade(m, h, x) ==
    LET y   == m.parent[x]
        m1  == IF y # NULL /\ cmp(m.value[x], m.value[y]) < 0
               THEN cut(m, h, x, y)
               ELSE m
        min == FIBHEAP_GET_MIN_NODE(m1, h)
    IN  IF cmp(m1.value[x], m1.value[min]) < 0
        THEN FIBHEAP_BECOME_MIN_NODE(m1, x, h)
        ELSE m1

\* fibheap_decrease that makes x the minimum also when it only ties with it.
fibheap_decrease_tie(m, h, x) ==
    LET y   == m.parent[x]
        m1  == IF y # NULL /\ cmp(m.value[x], m.value[y]) < 0
               THEN cascading_cut(cut(m, h, x, y), h, y)
               ELSE m
        min == FIBHEAP_GET_MIN_NODE(m1, h)
    IN  IF cmp(m1.value[x], m1.value[min]) <= 0
        THEN FIBHEAP_BECOME_MIN_NODE(m1, x, h)
        ELSE m1

fibheap_decrease(m, h, x) ==
    LET y   == m.parent[x]
        m1  == IF y # NULL /\ cmp(m.value[x], m.value[y]) < 0
               THEN cascading_cut(cut(m, h, x, y), h, y)
               ELSE m
        min == FIBHEAP_GET_MIN_NODE(m1, h)
    IN  IF cmp(m1.value[x], m1.value[min]) < 0
        THEN FIBHEAP_BECOME_MIN_NODE(m1, x, h)
        ELSE m1

\* fibheap_delete that makes x the minimum only when the comparator says so.
fibheap_delete_cmp(m, h, x) ==
    LET y   == m.parent[x]
        m1  == IF y # NULL
               THEN cascading_cut(cut(m, h, x, y), h, y)
               ELSE m
        min == FIBHEAP_GET_MIN_NODE(m1, h)
        m2  == IF cmp(m1.value[x], m1.value[min]) < 0
               THEN FIBHEAP_BECOME_MIN_NODE(m1, x, h)
               ELSE m1
    IN  fibheap_extract_min(m2, h).m

fibheap_delete(m, h, x) ==
    LET y  == m.parent[x]
        m1 == IF y # NULL
              THEN cascading_cut(cut(m, h, x, y), h, y)
              ELSE m
        m2 == FIBHEAP_BECOME_MIN_NODE(m1, x, h)
    IN  fibheap_extract_min(m2, h).m

make_fibheap(m, h) ==
    LET m1 == INIT_LIST_HEAD(m, RootOf(h))
    IN  [m1 EXCEPT !.n[h] = 0]

\* ----------------------------------------------------------- rbtree.c ----

\* Number of red-black tree nodes the client may allocate.
NumRbNodes == 6

\* Keys of red-black tree nodes are 1..MaxKey.
MaxKey == 3

RbNodes == 1..NumRbNodes
Keys    == 1..MaxKey

\* t->nil, the sentinel make_rbtree allocates: a node like the others, whose
\* fields the code reads and writes.
nil == NumRbNodes + 1

\* color_t
RED   == 0
BLACK == 1

make_rbtree_sentinel(t) ==
    LET t1 == [t  EXCEPT !.parent[nil] = NULL]
        t2 == [t1 EXCEPT !.left[nil]   = NULL]
        t3 == [t2 EXCEPT !.right[nil]  = NULL]
        t4 == [t3 EXCEPT !.value[nil]  = NULL]
    IN  [t4 EXCEPT !.color[nil] = BLACK]

make_rbtree(t) ==
    LET t1 == make_rbtree_sentinel(t)
        t2 == [t1 EXCEPT !.root = nil]
    IN  [t2 EXCEPT !.n = 0]

make_rbtree_node(t, node, v) ==
    LET t1 == [t  EXCEPT !.parent[node] = NULL]
        t2 == [t1 EXCEPT !.left[node]   = NULL]
        t3 == [t2 EXCEPT !.right[node]  = NULL]
        t4 == [t3 EXCEPT !.value[node]  = v]
    IN  [t4 EXCEPT !.color[node] = RED]

\* ROTATE(_tree, x, dir, opp); dir and opp name the fields left and right.
\* Each statement of the macro is an operator on the tree it is given.
ROTATE(t, x, dir, opp) ==
    LET y     == t[opp][x]
        s1(a) == [a EXCEPT ![opp][x] = a[dir][y]]
        s2(a) == IF a[dir][y] # nil
                 THEN [a EXCEPT !.parent[a[dir][y]] = x]
                 ELSE a
        s3(a) == [a EXCEPT !.parent[y] = a.parent[x]]
        s4(a) == IF a.parent[x] = nil
                 THEN [a EXCEPT !.root = y]
                 ELSE IF x = a[dir][a.parent[x]]
                 THEN [a EXCEPT ![dir][a.parent[x]] = y]
                 ELSE [a EXCEPT ![opp][a.parent[x]] = y]
        s5(a) == [a EXCEPT ![dir][y] = x]
        s6(a) == [a EXCEPT !.parent[x] = y]
    IN  s6(s5(s4(s3(s2(s1(t))))))

rotate_left(t, x) == ROTATE(t, x, "left", "right")

rotate_right(t, x) == ROTATE(t, x, "right", "left")

\* rotate_ ## dir
rotate_(t, x, dir) ==
    IF dir = "left" THEN rotate_left(t, x) ELSE rotate_right(t, x)

\* INSERT_FIXUP(_tree, y, z, dir, opp): the tree and z afterwards.
INSERT_FIXUP(t, z, dir, opp) ==
    LET y       == t[dir][t.parent[t.parent[z]]]
        c1(a)   == [a EXCEPT !.color[a.parent[z]] = BLACK]
        c2(a)   == [a EXCEPT !.color[y] = BLACK]
        c3(a)   == [a EXCEPT !.color[a.parent[a.parent[z]]] = RED]
        up(a)   == [t |-> a, z |-> a.parent[a.parent[z]]]
        turn    == z = t[dir][t.parent[z]]
        z1      == IF turn THEN t.parent[z] ELSE z
        r1(a)   == IF turn THEN rotate_(a, z1, opp) ELSE a
        r2(a)   == [a EXCEPT !.color[a.parent[z1]] = BLACK]
        r3(a)   == [a EXCEPT !.color[a.parent[a.parent[z1]]] = RED]
        r4(a)   == rotate_(a, a.parent[a.parent[z1]], dir)
        down(a) == [t |-> a, z |-> z1]
    IN  IF t.color[y] = RED
        THEN up(c3(c2(c1(t))))
        ELSE down(r4(r3(r2(r1(t)))))

\* One round of the loop of insert_fixup.
insert_fixup_round(t, z) ==
    IF t.parent[z] = t.left[t.parent[t.parent[z]]]
    THEN INSERT_FIXUP(t, z, "right", "left")
    ELSE INSERT_FIXUP(t, z, "left", "right")

RECURSIVE insert_fixup_loop(_)
insert_fixup_loop(r) ==
    IF r.t.color[r.t.parent[r.z]] = RED
    THEN insert_fixup_loop(insert_fixup_round(r.t, r.z))
    ELSE [r.t EXCEPT !.color[r.t.root] = BLACK]

insert_fixup(t, z) == insert_fixup_loop([t |-> t, z |-> z])

\* DELETE_FIXUP whose second case leaves the sibling w BLACK.
DELETE_FIXUP_keep(t, x, dir, opp) ==
    LET sib(a)  == [t |-> a, w |-> a[opp][a.parent[x]]]
        a1(s)   == [s.t EXCEPT !.color[s.w] = BLACK]
        a2(a)   == [a EXCEPT !.color[a.parent[x]] = RED]
        a3(a)   == rotate_(a, a.parent[x], dir)
        case1(s) == IF s.t.color[s.w] = RED THEN sib(a3(a2(a1(s)))) ELSE s
        b1(s)   == [t |-> s.t, x |-> s.t.parent[x]]
        c1(s)   == [s.t EXCEPT !.color[s.t[dir][s.w]] = BLACK]
        c2(s, a) == [a EXCEPT !.color[s.w] = RED]
        c3(s, a) == rotate_(a, s.w, opp)
        case3(s) == IF s.t.color[s.t[opp][s.w]] = BLACK
                    THEN sib(c3(s, c2(s, c1(s))))
                    ELSE s
        d1(s)   == [s.t EXCEPT !.color[s.w] = s.t.color[s.t.parent[x]]]
        d2(a)   == [a EXCEPT !.color[a.parent[x]] = BLACK]
        d3(s, a) == [a EXCEPT !.color[a[opp][s.w]] = BLACK]
        d4(a)   == rotate_(a, a.parent[x], dir)
        d5(a)   == [t |-> a, x |-> a.root]
        case4(s) == d5(d4(d3(s, d2(d1(s)))))
        rest(s) == IF /\ s.t.color[s.t[dir][s.w]] = BLACK
                      /\ s.t.color[s.t[opp][s.w]] = BLACK
                   THEN b1(s)
                   ELSE case4(case3(s))
    IN  rest(case1(sib(t)))

\* DELETE_FIXUP(_tree, w, x, dir, opp): the tree and x afterwards.  The
\* statements are operators on the tree a, or on the record s of the tree
\* and the local w.
DELETE_FIXUP(t, x, dir, opp) ==
    LET sib(a)  == [t |-> a, w |-> a[opp][a.parent[x]]]
        a1(s)   == [s.t EXCEPT !.color[s.w] = BLACK]
        a2(a)   == [a EXCEPT !.color[a.parent[x]] = RED]
        a3(a)   == rotate_(a, a.parent[x], dir)
        case1(s) == IF s.t.color[s.w] = RED THEN sib(a3(a2(a1(s)))) ELSE s
        b1(s)   == [t |-> [s.t EXCEPT !.color[s.w] = RED],
                    x |-> s.t.parent[x]]
        c1(s)   == [s.t EXCEPT !.color[s.t[dir][s.w]] = BLACK]
        c2(s, a) == [a EXCEPT !.color[s.w] = RED]
        c3(s, a) == rotate_(a, s.w, opp)
        case3(s) == IF s.t.color[s.t[opp][s.w]] = BLACK
                    THEN sib(c3(s, c2(s, c1(s))))
                    ELSE s
        d1(s)   == [s.t EXCEPT !.color[s.w] = s.t.color[s.t.parent[x]]]
        d2(a)   == [a EXCEPT !.color[a.parent[x]] = BLACK]
        d3(s, a) == [a EXCEPT !.color[a[opp][s.w]] = BLACK]
        d4(a)   == rotate_(a, a.parent[x], dir)
        d5(a)   == [t |-> a, x |-> a.root]
        case4(s) == d5(d4(d3(s, d2(d1(s)))))
        rest(s) == IF /\ s.t.color[s.t[dir][s.w]] = BLACK
                      /\ s.t.color[s.t[opp][s.w]] = BLACK
                   THEN b1(s)
                   ELSE case4(case3(s))
    IN  rest(case1(sib(t)))

\* One round of the loop of delete_fixup.
delete_fixup_round(t, x) ==
    IF x = t.left[t.parent[x]]
    THEN DELETE_FIXUP(t, x, "left", "right")
    ELSE DELETE_FIXUP(t, x, "right", "left")

RECURSIVE delete_fixup_loop(_)
delete_fixup_loop(r) ==
    IF r.x # r.t.root /\ r.t.color[r.x] = BLACK
    THEN delete_fixup_loop(delete_fixup_round(r.t, r.x))
    ELSE [r.t EXCEPT !.color[r.x] = BLACK]

delete_fixup(t, x) == delete_fixup_loop([t |-> t, x |-> x])

transplant(t, u, v) ==
    LET s1(a) == IF a.parent[u] = nil
                 THEN [a EXCEPT !.root = v]
                 ELSE IF u = a.left[a.parent[u]]
                 THEN [a EXCEPT !.left[a.parent[u]] = v]
                 ELSE [a EXCEPT !.right[a.parent[u]] = v]
        s2(a) == [a EXCEPT !.parent[v] = a.parent[u]]
    IN  s2(s1(t))

\* The comparator the client passes to make_rbtree (word_cmp).
rbtree_cmp(a, b) == (IF a > b THEN 1 ELSE 0) - (IF a < b THEN 1 ELSE 0)

\* __rbtree_search of rbtree.c.
RECURSIVE __rbtree_search(_, _, _)
__rbtree_search(t, x, v) ==
    IF x # nil
    THEN LET c == rbtree_cmp(t.value[x], v)
         IN  IF c < 0 THEN __rbtree_search(t, t.left[x], v)
             ELSE IF c > 0 THEN __rbtree_search(t, t.right[x], v)
             ELSE x
    ELSE x

rbtree_search(t, v) == __rbtree_search(t, t.root, v)

\* __rbtree_search of rbtree.h, the copy main.c includes.
RECURSIVE __rbtree_search_inline(_, _, _)
__rbtree_search_inline(t, x, v) ==
    IF x # nil /\ rbtree_cmp(v, t.value[x]) # 0
    THEN IF rbtree_cmp(v, t.value[x]) < 0
         THEN __rbtree_search_inline(t, t.left[x], v)
         ELSE __rbtree_search_inline(t, t.right[x], v)
    ELSE x

rbtree_search_inline(t, v) == __rbtree_search_inline(t, t.root, v)

RECURSIVE __rbtree_minimum(_, _)
__rbtree_minimum(t, x) ==
    IF t.left[x] # nil THEN __rbtree_minimum(t, t.left[x]) ELSE x

\* The descent of rbtree_insert: the node y under which z is hung.
RECURSIVE insert_descend(_, _, _, _)
insert_descend(t, z, x, y) ==
    IF x # nil
    THEN IF rbtree_cmp(t.value[z], t.value[x]) < 0
         THEN insert_descend(t, z, t.left[x], x)
         ELSE insert_descend(t, z, t.right[x], x)
    ELSE y

\* rbtree_insert hanging z on the side the descent did not take.
rbtree_insert_swapped(t, z) ==
    LET y     == insert_descend(t, z, t.root, nil)
        s1(a) == [a EXCEPT !.parent[z] = y]
        s2(a) == IF y = nil
                 THEN [a EXCEPT !.root = z]
                 ELSE IF rbtree_cmp(a.value[z], a.value[y]) < 0
                 THEN [a EXCEPT !.right[y] = z]
                 ELSE [a EXCEPT !.left[y] = z]
        s3(a) == [a EXCEPT !.left[z] = nil, !.right[z] = nil,
                           !.color[z] = RED]
        s4(a) == insert_fixup(a, z)
        s5(a) == [a EXCEPT !.n = @ + 1]
    IN  s5(s4(s3(s2(s1(t)))))

rbtree_insert(t, z) ==
    LET y     == insert_descend(t, z, t.root, nil)
        s1(a) == [a EXCEPT !.parent[z] = y]
        s2(a) == IF y = nil
                 THEN [a EXCEPT !.root = z]
                 ELSE IF rbtree_cmp(a.value[z], a.value[y]) < 0
                 THEN [a EXCEPT !.left[y] = z]
                 ELSE [a EXCEPT !.right[y] = z]
        s3(a) == [a EXCEPT !.left[z] = nil, !.right[z] = nil,
                           !.color[z] = RED]
        s4(a) == insert_fixup(a, z)
        s5(a) == [a EXCEPT !.n = @ + 1]
    IN  s5(s4(s3(s2(s1(t)))))

\* The third branch of rbtree_delete, z having two children: the tree
\* afterwards; y is the minimum of z's right subtree and x is y->right.
delete_splice(t, z, y, x) ==
    LET s1(a) == IF a.parent[y] = z
                 THEN [a EXCEPT !.parent[x] = y]
                 ELSE a
        s2(a) == IF t.parent[y] = z THEN a ELSE transplant(a, y, a.right[y])
        s3(a) == IF t.parent[y] = z THEN a
                 ELSE [a EXCEPT !.right[y] = a.right[z]]
        s4(a) == IF t.parent[y] = z THEN a
                 ELSE [a EXCEPT !.parent[a.right[y]] = y]
        s5(a) == transplant(a, z, y)
        s6(a) == [a EXCEPT !.left[y] = a.left[z]]
        s7(a) == [a EXCEPT !.parent[a.left[y]] = y]
        s8(a) == [a EXCEPT !.color[y] = a.color[z]]
    IN  s8(s7(s6(s5(s4(s3(s2(s1(t))))))))

\* rbtree_delete up to the test of y_color: the tree, x and y_color.
delete_unlink(t, z) ==
    IF t.left[z] = nil
    THEN [t |-> transplant(t, z, t.right[z]), x |-> t.right[z],
          y_color |-> t.color[z]]
    ELSE IF t.right[z] = nil
    THEN [t |-> transplant(t, z, t.left[z]), x |-> t.left[z],
          y_color |-> t.color[z]]
    ELSE [t |-> delete_splice(t, z, __rbtree_minimum(t, t.right[z]),
                              t.right[__rbtree_minimum(t, t.right[z])]),
          x |-> t.right[__rbtree_minimum(t, t.right[z])],
          y_color |-> t.color[__rbtree_minimum(t, t.right[z])]]

\* The end of rbtree_delete, from the test of y_color on.
delete_finish(r) ==
    LET s1(a) == IF r.y_color = BLACK THEN delete_fixup(a, r.x) ELSE a
        s2(a) == [a EXCEPT !.n = @ - 1]
    IN  s2(s1(r.t))

rbtree_delete(t, z) == delete_finish(delete_unlink(t, z))

\* __rbtree_inorder_walk(t, x, visit): the nodes visited, in order.  The
\* descent is cut below more levels than the tree has nodes.
RECURSIVE __rbtree_inorder_walk(_, _, _)
__rbtree_inorder_walk(t, x, depth) ==
    IF x = nil \/ depth = 0
    THEN <<>>
    ELSE __rbtree_inorder_walk(t, t.left[x], depth - 1) \o <<x>>
           \o __rbtree_inorder_walk(t, t.right[x], depth - 1)

rbtree_inorder_walk(t) == __rbtree_inorder_walk(t, t.root, NumRbNodes + 1)

\* --------------------------------------------------------- strmatch.c ----

\* Longest text the client passes to strmatch_rk.
MaxTxtLen == 3

\* The bytes strings are made of: 'a', and the two bytes 0xC3 0xA9 of the
\* UTF-8 encoding of e-acute.
Bytes == {97, 195, 169}

ALPH_SZ     == 2048
LARGE_PRIME == 497

\* The value of a char holding byte b, promoted to int: char is a signed
\* type in some builds and an unsigned one in others.
CharOf(b, signed_char) == IF signed_char /\ b >= 128 THEN b - 256 ELSE b

\* a % b of C for b > 0: the remainder has the sign of a.
CRem(a, b) == IF a >= 0 THEN a % b ELSE -((-a) % b)

\* The while loop of mod_exp; exp >>= 1 is exp \div 2 for exp > 0.
RECURSIVE mod_exp_loop(_, _, _, _)
mod_exp_loop(ret, base, exp, mod) ==
    IF exp > 0
    THEN mod_exp_loop(IF CRem(exp, 2) = 1 THEN CRem(ret * base, mod)
                      ELSE ret,
                      CRem(base * base, mod), exp \div 2, mod)
    ELSE ret

mod_exp(base, exp, mod) ==
    IF mod = 1 THEN 0 ELSE mod_exp_loop(1, CRem(base, mod), exp, mod)

\* The first loop of __strmatch_rk: the hash of str[1..m], from i on.
RECURSIVE rk_hash(_, _, _, _, _, _)
rk_hash(str, m, i, acc, d, q) ==
    IF i > m THEN acc
    ELSE rk_hash(str, m, i + 1, CRem(d * acc + str[i], q), d, q)

\* The second loop of __strmatch_rk from shift s on (s counts from 0, the
\* strings from 1), with t the hash of the window at s.
RECURSIVE rk_scan(_, _, _, _, _, _, _, _)
rk_scan(txt, pat, s, t, p, h, d, q) ==
    LET n   == Len(txt)
        m   == Len(pat)
        hit == p = t /\ \A i \in 1..m : txt[s + i] = pat[i]
        t1  == CRem(d * (t - txt[s + 1] * h) + txt[s + m + 1], q)
        t2  == IF t1 < 0 THEN t1 + q ELSE t1
    IN  IF s > n - m THEN 0
        ELSE (IF hit THEN 1 ELSE 0)
               + (IF s < n - m
                  THEN rk_scan(txt, pat, s + 1, t2, p, h, d, q)
                  ELSE 0)

\* __strmatch_rk on the char values of the two strings.
__strmatch_rk(txt, pat, d, q) ==
    LET m == Len(pat)
        h == mod_exp(d, m - 1, q)
        p == rk_hash(pat, m, 1, 0, d, q)
        t == rk_hash(txt, m, 1, 0, d, q)
    IN  rk_scan(txt, pat, 0, t, p, h, d, q)

\* strmatch_rk(txt, pat) for strings given as bytes, in a build where char
\* is signed or not.
strmatch_rk(txt, pat, signed_char) ==
    __strmatch_rk([i \in 1..Len(txt) |-> CharOf(txt[i], signed_char)],
                  [i \in 1..Len(pat) |-> CharOf(pat[i], signed_char)],
                  ALPH_SZ, LARGE_PRIME)

\* ------------------------------------------------------ the client -------

\* Memory before any allocation: cells that do not exist yet are given a
\* fixed content, which make_fibheap and make_fibheap_node overwrite.
Blank == [next   |-> [a \in Addr |-> a],
          prev   |-> [a \in Addr |-> a],
          parent |-> [k \in Nodes |-> NULL],
          degree |-> [k \in Nodes |-> Word(0, 0)],
          value  |-> [k \in Nodes |-> 0],
          n      |-> [h \in Heaps |-> 0],
          oob    |-> FALSE]

\* free(node): the node's cells stop being part of the program's memory; the
\* model gives them back the fixed content of cells that do not exist.
free(m, node) ==
    [m EXCEPT !.next[ListOf(node)]  = ListOf(node),
              !.prev[ListOf(node)]  = ListOf(node),
              !.next[ChildOf(node)] = ChildOf(node),
              !.prev[ChildOf(node)] = ChildOf(node),
              !.parent[node] = NULL,
              !.degree[node] = Word(0, 0),
              !.value[node]  = 0]

\* test_fibheap: h1 = make_fibheap(word_cmp); h2 = make_fibheap(word_cmp).
InitHeap ==
    /\ LET m == make_fibheap(make_fibheap(Blank, 1), 2)
       IN  /\ next = m.next /\ prev = m.prev /\ parent = m.parent
           /\ degree = m.degree /\ value = m.value /\ heap_n = m.n
           /\ oob = m.oob
    /\ made = 0
    /\ owner = [k \in Nodes |-> NULL]
    /\ merged = {}

\* Tree memory before any allocation.
RbBlank == [root   |-> NULL,
            n      |-> 0,
            parent |-> [a \in 1..nil |-> NULL],
            left   |-> [a \in 1..nil |-> NULL],
            right  |-> [a \in 1..nil |-> NULL],
            color  |-> [a \in 1..nil |-> RED],
            value  |-> [a \in 1..nil |-> NULL]]

\* free(node) of a tree node.
rb_free(t, node) ==
    [t EXCEPT !.parent[node] = NULL,
              !.left[node]   = NULL,
              !.right[node]  = NULL,
              !.color[node]  = RED,
              !.value[node]  = NULL]

\* test_rbtree: t = make_rbtree(word_cmp).
InitRb ==
    /\ rb = make_rbtree(RbBlank)
    /\ rb_made = 0
    /\ rb_in = {}

\* No call of strmatch_rk has been made.
NoCall == [txt |-> <<>>, pat |-> <<>>, signed_char |-> FALSE, occur |-> -1]

Init == InitHeap /\ InitRb /\ sm = NoCall

\* A heap the client may still call operations on: after a union that
\* spliced heap2's roots into heap1, heap2 is only freed (test_fibheap).
Usable(h) == h \in Heaps /\ h \notin merged

\* fibheap_insert(h, make_fibheap_node(v)), as fibheap_insert_words does;
\* the client allocates at most cap nodes.
Insert(h, v, cap) ==
    /\ Usable(h)
    /\ made < cap
    /\ LET x == made + 1
       IN  /\ SetMem(fibheap_insert(make_fibheap_node(Mem, x, v), h, x))
           /\ made' = x
           /\ owner' = [owner EXCEPT ![x] = h]
    /\ UNCHANGED merged
    /\ UNCHANGED <<rbvars, sm>>

Minimum(h) ==
    /\ Usable(h)
    /\ SetMem(fibheap_minimum_call(Mem, h).m)
    /\ UNCHANGED <<made, owner, merged>>
    /\ UNCHANGED <<rbvars, sm>>

\* n = fibheap_extract_min(h); ...; free(n), as the loop of test_fibheap.
ExtractMin(h) ==
    /\ Usable(h)
    /\ LET r == fibheap_extract_min(Mem, h)
       IN  /\ SetMem(IF r.ret = NULL THEN r.m ELSE free(r.m, r.ret))
           /\ owner' = [k \in Nodes |-> IF k = r.ret THEN NULL ELSE owner[k]]
    /\ UNCHANGED <<made, merged>>
    /\ UNCHANGED <<rbvars, sm>>

\* fibheap_union(heap1, heap2); either argument may be NULL.
Union(heap1, heap2) ==
    /\ heap1 = NULL \/ Usable(heap1)
    /\ heap2 = NULL \/ Usable(heap2)
    /\ heap1 # heap2
    /\ LET r       == fibheap_union(Mem, heap1, heap2)
           spliced == /\ heap1 # NULL /\ heap2 # NULL
                      /\ ~fibheap_is_empty(Mem, heap1)
                      /\ ~fibheap_is_empty(Mem, heap2)
       IN  /\ SetMem(r.m)
           /\ owner' = [k \in Nodes |->
                          IF spliced /\ owner[k] = heap2 THEN heap1
                          ELSE owner[k]]
           /\ merged' = IF spliced THEN merged \cup {heap2} ELSE merged
    /\ UNCHANGED made
    /\ UNCHANGED <<rbvars, sm>>

\* The client lowers x's key to v, then calls fibheap_decrease(h, x).
Decrease(h, x, v) ==
    /\ Usable(h)
    /\ owner[x] = h
    /\ v <= value[x]
    /\ SetMem(fibheap_decrease([Mem EXCEPT !.value[x] = v], h, x))
    /\ UNCHANGED <<made, owner, merged>>
    /\ UNCHANGED <<rbvars, sm>>

\* fibheap_delete(h, x); the node is not used again.
Delete(h, x) ==
    /\ Usable(h)
    /\ owner[x] = h
    /\ SetMem(free(fibheap_delete(Mem, h, x), x))
    /\ owner' = [owner EXCEPT ![x] = NULL]
    /\ UNCHANGED <<made, merged>>
    /\ UNCHANGED <<rbvars, sm>>

\* One heap, h1, under every operation; h2 stays empty, so every union here
\* is one with an empty or absent operand.
Next ==
    \/ \E v \in Values : Insert(1, v, NumNodes)
    \/ Minimum(1)
    \/ ExtractMin(1)
    \/ \E heap1, heap2 \in Heaps \cup {NULL} : Union(heap1, heap2)
    \/ \E x \in Nodes, v \in Values : Decrease(1, x, v)
    \/ \E x \in Nodes : Delete(1, x)

Spec == Init /\ [][Next]_vars

\* Two heaps, each under every operation, and their union; the client
\* allocates one node less than in Spec.
NextUnion ==
    \/ \E h \in Heaps, v \in Values : Insert(h, v, NumNodes - 1)
    \/ \E h \in Heaps : Minimum(h)
    \/ \E h \in Heaps : ExtractMin(h)
    \/ \E heap1, heap2 \in Heaps \cup {NULL} : Union(heap1, heap2)
    \/ \E h \in Heaps, x \in Nodes, v \in Values : Decrease(h, x, v)
    \/ \E h \in Heaps, x \in Nodes : Delete(h, x)

SpecUnion == Init /\ [][NextUnion]_vars

\* fibheap_insert_words: nodes k..n are allocated with key v and inserted.
RECURSIVE fibheap_insert_words(_, _, _, _, _)
fibheap_insert_words(m, h, k, n, v) ==
    IF k > n THEN m
    ELSE fibheap_insert_words(fibheap_insert(make_fibheap_node(m, k, v), h, k),
                              h, k + 1, n, v)

\* h1 after CascadeNodes insertions of the largest key and one
\* fibheap_extract_min, which consolidates the rest into binomial trees.
InitCascade ==
    /\ LET m0 == make_fibheap(make_fibheap(Blank, 1), 2)
           m1 == fibheap_insert_words(m0, 1, 1, CascadeNodes, MaxValue)
           r  == fibheap_extract_min(m1, 1)
           m  == free(r.m, r.ret)
       IN  /\ next = m.next /\ prev = m.prev /\ parent = m.parent
           /\ degree = m.degree /\ value = m.value /\ heap_n = m.n
           /\ oob = m.oob
           /\ owner = [k \in Nodes |->
                         IF k <= CascadeNodes /\ k # r.ret THEN 1 ELSE NULL]
    /\ made = CascadeNodes
    /\ merged = {}
    /\ InitRb
    /\ sm = NoCall

\* The heap so built under fibheap_delete, and under fibheap_decrease once
\* it is down to NumNodes nodes.
NextCascade ==
    \/ \E x \in Nodes, v \in Values :
         heap_n[1] <= NumNodes /\ Decrease(1, x, v)
    \/ \E x \in Nodes : Delete(1, x)

SpecCascade == InitCascade /\ [][NextCascade]_vars

\* rbtree_insert(t, make_rbtree_node(v)), as rbtree_insert_words does.
RbInsert(v) ==
    /\ rb_made < NumRbNodes
    /\ LET z == rb_made + 1
       IN  /\ rb' = rbtree_insert(make_rbtree_node(rb, z, v), z)
           /\ rb_made' = z
           /\ rb_in' = rb_in \cup {z}
    /\ UNCHANGED <<heapvars, sm>>

\* rbtree_delete(t, z) of a node in the tree; the node is not used again.
RbDelete(z) ==
    /\ z \in rb_in
    /\ rb' = rb_free(rbtree_delete(rb, z), z)
    /\ rb_in' = rb_in \ {z}
    /\ UNCHANGED <<rb_made, heapvars, sm>>

\* rbtree_search(t, v) and rbtree_inorder_walk(t, visit) only read the tree.
RbSearch(v) ==
    /\ rbtree_search(rb, v) \in 1..nil
    /\ UNCHANGED vars

RbWalk ==
    /\ Len(rbtree_inorder_walk(rb)) >= 0
    /\ UNCHANGED vars

NextRb ==
    \/ \E v \in Keys : RbInsert(v)
    \/ \E z \in RbNodes : RbDelete(z)
    \/ \E v \in Keys : RbSearch(v)
    \/ RbWalk

SpecRb == Init /\ [][NextRb]_vars

\* Strings of 1..n bytes.
Strs(n) == UNION {[1..k -> Bytes] : k \in 1..n}

\* test_patmatch: the text and the pattern of one strmatch_rk call, in a
\* build whose char is signed or unsigned.
InitRK ==
    /\ InitHeap
    /\ InitRb
    /\ \E txt \in Strs(MaxTxtLen), signed_char \in BOOLEAN :
         \E pat \in Strs(Len(txt)) :
           sm = [txt |-> txt, pat |-> pat, signed_char |-> signed_char,
                 occur |-> -1]

\* occur = strmatch_rk(txt, pat).
StrmatchRk ==
    /\ sm.occur = -1
    /\ sm' = [sm EXCEPT !.occur = strmatch_rk(sm.txt, sm.pat, sm.signed_char)]
    /\ UNCHANGED <<heapvars, rbvars>>

NextRK == StrmatchRk

SpecRK == InitRK /\ [][NextRK]_vars

\* ------------------------------------------------- observing the heap ----

\* list_for_each(pos, head): the cells met following next from pos until
\* head comes round again.  A ring that never returns to head is cut after
\* more cells than the memory holds.
RECURSIVE list_for_each(_, _, _, _)
list_for_each(m, head, pos, fuel) ==
    IF pos = head \/ fuel = 0
    THEN <<>>
    ELSE <<pos>> \o list_for_each(m, head, m.next[pos], fuel - 1)

\* The entries of the list at head, in order.
Entries(m, head) ==
    LET cells == list_for_each(m, head, m.next[head], 2 * MemNodes + 3)
    IN  [i \in 1..Len(cells) |-> list_entry(cells[i])]

RECURSIVE Forest(_, _, _)
RECURSIVE ForestOf(_, _, _)
\* The nodes reachable from the list at head through sibling rings and child
\* lists, each as often as it is met; depth bounds the descent.
ForestOf(m, es, depth) ==
    IF es = <<>> THEN <<>>
    ELSE LET x == Head(es)
         IN  <<x>> \o (IF x \in Nodes /\ depth > 0
                       THEN Forest(m, ChildOf(x), depth - 1)
                       ELSE <<>>)
                   \o ForestOf(m, Tail(es), depth)

Forest(m, head, depth) == ForestOf(m, Entries(m, head), depth)

Reachable(m, h) == Forest(m, RootOf(h), MemNodes)

Range(s) == {s[i] : i \in 1..Len(s)}

NoDuplicates(s) == \A i, j \in 1..Len(s) : s[i] = s[j] => i = j

\* The nodes the client has put in heap h and not taken out again.
Live(h) == {x \in Nodes : owner[x] = h}

\* while (!fibheap_is_empty(h)) { n = fibheap_extract_min(h); ...; free(n); }
\* of test_fibheap: the nodes returned, in order.  The loop is cut after
\* more rounds than there are nodes.
RECURSIVE Drain(_, _, _)
Drain(m, h, fuel) ==
    IF fibheap_is_empty(m, h) \/ fuel = 0
    THEN <<>>
    ELSE LET r == fibheap_extract_min(m, h)
         IN  <<r.ret>> \o Drain(IF r.ret \in Nodes THEN free(r.m, r.ret)
                                ELSE r.m, h, fuel - 1)

\* The keys of the nodes S sorted with the comparator.
RECURSIVE SortedKeys(_, _, _)
SortedKeys(m, S, v) ==
    IF v > MaxValue THEN <<>>
    ELSE [i \in 1..Cardinality({x \in S : m.value[x] = v}) |-> v]
           \o SortedKeys(m, S, v + 1)

KeysOf(m, s) == [i \in 1..Len(s) |-> m.value[s[i]]]

\* ------------------------------------------------------------ claims ----

C4_Count ==
    \A h \in Heaps : Usable(h) =>
        /\ heap_n[h] = Cardinality(Range(Reachable(Mem, h)))
        /\ made < NumNodes =>
             \A v \in Values :
                fibheap_insert(make_fibheap_node(Mem, made + 1, v), h,
                               made + 1).n[h] = heap_n[h] + 1
        /\ LET r == fibheap_extract_min(Mem, h)
           IN  r.m.n[h] = IF r.ret = NULL THEN heap_n[h] ELSE heap_n[h] - 1
        /\ \A x \in Live(h) :
             /\ fibheap_delete(Mem, h, x).n[h] = heap_n[h] - 1
             /\ \A v \in Values : v <= value[x] =>
                  fibheap_decrease([Mem EXCEPT !.value[x] = v], h, x).n[h]
                      = heap_n[h]
        /\ \A B \in Heaps : (B # h /\ Usable(B)) =>
             LET r == fibheap_union(Mem, h, B)
             IN  r.m.n[r.ret] = heap_n[h] + heap_n[B]

\* After a union of two heaps of two nodes and an extraction that linked two
\* of the three nodes left.
C4_Witness ==
    /\ merged = {2}
    /\ heap_n[1] = 3
    /\ heap_n[2] = 2
    /\ made = 4
    /\ \E x \in Live(1) : parent[x] # NULL
    /\ C4_Count

\* C5: the nodes put in a heap and not taken out are exactly the nodes
\* reachable from its root list, each met once: roots once in the root list,
\* every other node in the child list of its parent and in no other.
C5_ExactlyOnce ==
    \A h \in Heaps : Usable(h) =>
        LET f == Reachable(Mem, h)
        IN  /\ Range(f) = Live(h)
            /\ NoDuplicates(f)
            /\ Range(Entries(Mem, RootOf(h)))
                 = {x \in Live(h) : parent[x] = NULL}
            /\ \A p \in Live(h) :
                 Range(Entries(Mem, ChildOf(p)))
                   = {x \in Live(h) : parent[x] = p}

\* A root with two children, one marked by a cut below it: extract_min,
\* consolidate and cut have all moved nodes.
C5_Witness ==
    /\ \E p \in Live(1) :
          /\ Len(Entries(Mem, ChildOf(p))) = 2
          /\ \E y \in Live(1) : parent[y] = p /\ FIBHEAP_TEST_MARK(degree[y])
    /\ C5_ExactlyOnce

\* One heap under fibheap_insert and fibheap_extract_min alone.
NextSort ==
    \/ \E v \in Values : Insert(1, v, NumNodes)
    \/ ExtractMin(1)

SpecSort == Init /\ [][NextSort]_vars

\* C2: from a heap filled by fibheap_insert, calling fibheap_extract_min
\* until the heap is empty returns every node of the heap exactly once, in
\* non-decreasing order: the keys come out as the sorted multiset.
C2_SortedExtraction ==
    LET out == Drain(Mem, 1, NumNodes + 1)
    IN  /\ Range(out) = Live(1)
        /\ NoDuplicates(out)
        /\ KeysOf(Mem, out) = SortedKeys(Mem, Live(1), 1)

\* Every node inserted and none extracted, with duplicates of both keys,
\* inserted out of order.
C2_Witness ==
    /\ made = NumNodes
    /\ Live(1) = 1..NumNodes
    /\ value[1] = MaxValue /\ value[2] = 1 /\ value[3] = MaxValue
    /\ value[4] = 1
    /\ C2_SortedExtraction

\* C6: for two non-empty heaps the heap fibheap_union returns is its first
\* argument, its n is the sum of the two counts, and its minimum is the
\* lower of the two former minimum nodes, the first heap's on a tie.
C6_UnionCorrect ==
    \A A, B \in Heaps :
        (A # B /\ Usable(A) /\ Usable(B)
           /\ ~fibheap_is_empty(Mem, A) /\ ~fibheap_is_empty(Mem, B)) =>
        LET r    == fibheap_union(Mem, A, B)
            minA == fibheap_minimum(Mem, A)
            minB == fibheap_minimum(Mem, B)
        IN  /\ r.ret = A
            /\ r.m.n[A] = heap_n[A] + heap_n[B]
            /\ fibheap_minimum(r.m, r.ret)
                 = IF cmp(value[minB], value[minA]) < 0 THEN minB ELSE minA

\* After a union of two non-empty heaps whose minima tied: h1 holds every
\* node allocated, h2's former minimum among them, and h1's minimum heads
\* the list.
C6_Witness ==
    /\ merged = {2}
    /\ made = NumNodes - 1
    /\ Live(1) = 1..(NumNodes - 1)
    /\ heap_n[1] = NumNodes - 1
    /\ heap_n[2] = 2
    /\ \A x \in Live(1) : value[x] = 1
    /\ fibheap_minimum(Mem, 1) = 1
    /\ C6_UnionCorrect

\* The nodes two heaps hold together.
Both(A, B) == Live(A) \cup Live(B)

\* C7: draining the heap returned by fibheap_union(A, B) yields the nodes of
\* A and B together, each once, in non-decreasing order.
C7_UnionDrain ==
    \A A, B \in Heaps : (A # B /\ Usable(A) /\ Usable(B)) =>
        LET r   == fibheap_union(Mem, A, B)
            out == Drain(r.m, r.ret, NumNodes + 1)
        IN  /\ Range(out) = Both(A, B)
            /\ NoDuplicates(out)
            /\ KeysOf(Mem, out) = SortedKeys(Mem, Both(A, B), 1)

\* Two heaps about to be merged: h1 holds a tree built by an extraction, h2
\* a node that outranks all of h1.
C7_Witness ==
    /\ merged = {}
    /\ \E x \in Live(1) : parent[x] # NULL
    /\ \E y \in Live(2) : \A x \in Live(1) : value[y] < value[x]
    /\ C7_UnionDrain

\* C8 as claimed: after fibheap_union(h1, h2) with the return value ignored,
\* draining h1 yields every node that was in h1 or h2, h1 empty or not.
C8_InPlaceAnyFirst ==
    \A h1, h2 \in Heaps : (h1 # h2 /\ Usable(h1) /\ Usable(h2)) =>
        LET r   == fibheap_union(Mem, h1, h2)
            out == Drain(r.m, h1, NumNodes + 1)
        IN  Range(out) = Both(h1, h2)

\* C8, amended: when h1 is not empty, draining h1 after fibheap_union(h1, h2)
\* yields every node that was in h1 or h2; when h1 is empty and h2 is not,
\* h1 stays empty and h2 keeps its nodes.
C8_InPlaceNonEmptyFirst ==
    \A h1, h2 \in Heaps : (h1 # h2 /\ Usable(h1) /\ Usable(h2)) =>
        LET r   == fibheap_union(Mem, h1, h2)
            out == Drain(r.m, h1, NumNodes + 1)
        IN  IF ~fibheap_is_empty(Mem, h1)
            THEN Range(out) = Both(h1, h2) /\ NoDuplicates(out)
            ELSE /\ out = <<>>
                 /\ Range(Drain(r.m, h2, NumNodes + 1)) = Live(h2)

\* h1 with a tree and h2 with a node, about to be merged into h1: draining
\* h1 after the union returns all of them.
C8_Witness ==
    /\ merged = {}
    /\ \E x \in Live(1) : parent[x] # NULL
    /\ Live(2) # {}
    /\ Len(Drain(fibheap_union(Mem, 1, 2).m, 1, NumNodes + 1)) = NumNodes - 2
    /\ C8_InPlaceNonEmptyFirst

\* C9: fibheap_union returns heap1 when heap2 is NULL or empty, and heap2
\* when heap1 is NULL or empty and heap2 is not empty; either way nothing
\* in memory is written.
C9_UnionTrivial ==
    \A heap1, heap2 \in Heaps \cup {NULL} :
        ((heap1 = NULL \/ Usable(heap1)) /\ (heap2 = NULL \/ Usable(heap2))
           /\ (heap1 # heap2 \/ heap1 = NULL)) =>
        LET r      == fibheap_union(Mem, heap1, heap2)
            empty1 == heap1 = NULL \/ fibheap_is_empty(Mem, heap1)
            empty2 == heap2 = NULL \/ fibheap_is_empty(Mem, heap2)
        IN  /\ empty2 => (r.ret = heap1 /\ r.m = Mem)
            /\ (empty1 /\ ~empty2) => (r.ret = heap2 /\ r.m = Mem)

\* h1 emptied again by extractions while h2 holds nodes: the union returns
\* h2.
C9_Witness ==
    /\ fibheap_is_empty(Mem, 1)
    /\ made = NumNodes - 1
    /\ Cardinality(Live(2)) = 2
    /\ fibheap_union(Mem, 1, 2).ret = 2
    /\ fibheap_union(Mem, 2, 1).ret = 2
    /\ C9_UnionTrivial

\* C10: when the client lowers x's key below every other key of the heap and
\* calls fibheap_decrease(h, x), fibheap_minimum(h) is x and the next
\* fibheap_extract_min(h) returns x, wherever x was in the forest.
C10_DecreaseToMin ==
    \A h \in Heaps : Usable(h) =>
        \A x \in Live(h) : \A v \in Values :
            (v <= value[x] /\ \A y \in Live(h) \ {x} : v < value[y]) =>
            LET m == fibheap_decrease([Mem EXCEPT !.value[x] = v], h, x)
            IN  /\ fibheap_minimum(m, h) = x
                /\ fibheap_extract_min(m, h).ret = x

\* A marked child, below a root that heads other roots, whose key can be
\* lowered below all the others: the decrease cuts it and makes it the
\* minimum.
C10_Witness ==
    \E x \in Live(1) :
        /\ parent[x] # NULL
        /\ FIBHEAP_TEST_MARK(degree[x])
        /\ value[x] = MaxValue
        /\ \A y \in Live(1) \ {x} : value[y] = MaxValue
        /\ fibheap_minimum(Mem, 1) # x
        /\ fibheap_minimum(fibheap_decrease([Mem EXCEPT !.value[x] = 1],
                                            1, x), 1) = x
        /\ C10_DecreaseToMin

\* C11: under inserts interleaved with decreases, deletes and extractions,
\* fibheap_extract_min returns a node of the heap whose current key no node
\* of the heap outranks, and draining the heap returns the nodes left in it,
\* each once, in non-decreasing order of their current keys.
C11_PriorityMultiset ==
    \A h \in Heaps : Usable(h) =>
        LET r   == fibheap_extract_min(Mem, h)
            out == Drain(Mem, h, NumNodes + 1)
        IN  /\ Live(h) # {} =>
                 /\ r.ret \in Live(h)
                 /\ \A y \in Live(h) : cmp(value[y], value[r.ret]) >= 0
            /\ Range(out) = Live(h)
            /\ NoDuplicates(out)
            /\ KeysOf(Mem, out) = SortedKeys(Mem, Live(h), 1)

\* A heap that took every operation: every node was allocated, one was taken
\* out, a cut has left a mark on a child, and two different keys are present.
C11_Witness ==
    /\ made = NumNodes
    /\ Cardinality(Live(1)) = NumNodes - 1
    /\ \E y \in Live(1) : parent[y] # NULL /\ FIBHEAP_TEST_MARK(degree[y])
    /\ \E x, y \in Live(1) : value[x] # value[y]
    /\ Len(Drain(Mem, 1, NumNodes + 1)) = NumNodes - 1
    /\ C11_PriorityMultiset

\* The cells of the heap h and of the nodes S: the root list head and each
\* node's list and child members.
CellsOf(h, S) ==
    {RootOf(h)} \cup {ListOf(y) : y \in S} \cup {ChildOf(y) : y \in S}

\* C12: after fibheap_delete(h, x) for a node x of h, h->n is one less and
\* nothing left in h refers to x: no remaining node has parent x, and no
\* next or prev of a remaining node's list member, of its child head or of
\* the root list head points at x's list member or at x's child head.
C12_DeleteSevers ==
    \A h \in Heaps : Usable(h) =>
        \A x \in Live(h) :
            LET m    == fibheap_delete(Mem, h, x)
                rest == Live(h) \ {x}
            IN  /\ m.n[h] = heap_n[h] - 1
                /\ \A y \in rest : m.parent[y] # x
                /\ \A c \in CellsOf(h, rest) :
                      /\ m.next[c] \notin {ListOf(x), ChildOf(x)}
                      /\ m.prev[c] \notin {ListOf(x), ChildOf(x)}

\* A node below a root that has a child of its own, and a sibling: deleting
\* it cuts it from its parent and promotes its child.
C12_Witness ==
    /\ \E x, y, z \in Live(1) :
          /\ parent[x] # NULL
          /\ parent[y] = x
          /\ z # x /\ parent[z] = parent[x]
          /\ fibheap_delete(Mem, 1, x).parent[y] # x
    /\ C12_DeleteSevers

\* C13: fibheap_delete(h, x) takes out x and nothing else, whatever x's key
\* and depth: the nodes reachable in h afterwards are the former ones
\* without x, each once, and the first root afterwards is one of them that
\* none of them outranks.
C13_DeleteExactly ==
    \A h \in Heaps : Usable(h) =>
        \A x \in Live(h) :
            LET m    == fibheap_delete(Mem, h, x)
                rest == Live(h) \ {x}
                f    == Reachable(m, h)
                min  == fibheap_minimum(m, h)
            IN  /\ Range(f) = rest
                /\ NoDuplicates(f)
                /\ fibheap_is_empty(m, h) <=> rest = {}
                /\ rest # {} =>
                     /\ min \in rest
                     /\ \A y \in rest : cmp(m.value[y], m.value[min]) >= 0

\* A node with the largest key, below a root with a smaller key, with a
\* child of its own that stays in the heap when the node is deleted.
C13_Witness ==
    /\ \E x, y \in Live(1) :
          /\ parent[x] # NULL
          /\ parent[y] = x
          /\ value[x] = MaxValue
          /\ value[fibheap_minimum(Mem, 1)] < MaxValue
          /\ y \in Range(Reachable(fibheap_delete(Mem, 1, x), 1))
          /\ x \notin Range(Reachable(fibheap_delete(Mem, 1, x), 1))
    /\ C13_DeleteExactly

\* C14: the node z that fibheap_extract_min returns, and the node that
\* fibheap_delete removes, has its links cleared when the call returns:
\* z->parent is NULL, z's child list is empty, and z's list next and prev
\* point at no cell still in the heap.
C14_LinksCleared ==
    \A h \in Heaps : Usable(h) =>
        /\ LET r    == fibheap_extract_min(Mem, h)
               z    == r.ret
               rest == Live(h) \ {z}
           IN  z # NULL =>
                 /\ r.m.parent[z] = NULL
                 /\ list_empty(r.m, ChildOf(z))
                 /\ r.m.next[ListOf(z)] \notin CellsOf(h, rest)
                 /\ r.m.prev[ListOf(z)] \notin CellsOf(h, rest)
        /\ \A x \in Live(h) :
             LET m    == fibheap_delete(Mem, h, x)
                 rest == Live(h) \ {x}
             IN  /\ m.parent[x] = NULL
                 /\ list_empty(m, ChildOf(x))
                 /\ m.next[ListOf(x)] \notin CellsOf(h, rest)
                 /\ m.prev[ListOf(x)] \notin CellsOf(h, rest)

\* C15: between operations no root is marked: a node of a heap whose parent
\* is NULL has its mark bit clear.
C15_NoMarkedRoot ==
    \A h \in Heaps : Usable(h) =>
        \A x \in Live(h) :
            parent[x] = NULL => ~FIBHEAP_TEST_MARK(degree[x])

\* C16: between operations, for every node x of a heap, GET_DEGREE(x), the
\* degree word with the mark bit masked off, is the number of entries of
\* x's child list.
C16_DegreeIsChildCount ==
    \A h \in Heaps : Usable(h) =>
        \A x \in Range(Reachable(Mem, h)) \cup Live(h) :
            /\ x \in Nodes
            /\ FIBHEAP_GET_DEGREE(degree[x]) = Len(Entries(Mem, ChildOf(x)))

\* A root of degree two next to a marked node of degree zero: link has
\* raised degrees and cut has lowered one.
C16_Witness ==
    /\ \E x, y \in Live(1) :
          /\ FIBHEAP_GET_DEGREE(degree[x]) = 2
          /\ parent[y] = x
          /\ FIBHEAP_TEST_MARK(degree[y])
          /\ FIBHEAP_GET_DEGREE(degree[y]) = 0
    /\ C16_DegreeIsChildCount

\* C17: fibheap_extract_min on an empty heap returns NULL and writes
\* nothing: n stays 0 and the root list stays empty.
C17_ExtractEmpty ==
    \A h \in Heaps : (Usable(h) /\ fibheap_is_empty(Mem, h)) =>
        LET r == fibheap_extract_min(Mem, h)
        IN  /\ r.ret = NULL
            /\ r.m = Mem
            /\ r.m.n[h] = 0
            /\ list_empty(r.m, RootOf(h))

\* A heap emptied again after every node was allocated: the last one left
\* by an extraction or a deletion.
C17_Witness ==
    /\ made = NumNodes
    /\ Live(1) = {}
    /\ fibheap_is_empty(Mem, 1)
    /\ fibheap_extract_min(Mem, 1).ret = NULL
    /\ C17_ExtractEmpty

\* C18: fibheap_minimum on an empty heap returns an explicit empty result,
\* NULL, and no pointer a caller could take for a node.
C18_MinimumEmptyIsNull ==
    \A h \in Heaps : (Usable(h) /\ fibheap_is_empty(Mem, h)) =>
        fibheap_minimum(Mem, h) = NULL

C20_InsertEffect ==
    \A h \in Heaps : (Usable(h) /\ made < NumNodes) =>
        \A v \in Values :
            LET x     == made + 1
                m     == fibheap_insert(make_fibheap_node(Mem, x, v), h, x)
                old   == Entries(Mem, RootOf(h))
                new   == Entries(m, RootOf(h))
                first == fibheap_is_empty(Mem, h)
                           \/ cmp(v, value[fibheap_minimum(Mem, h)]) < 0
            IN  /\ m.n[h] = heap_n[h] + 1
                /\ new = IF first THEN <<x>> \o old ELSE old \o <<x>>
                /\ (fibheap_minimum(m, h) = x) <=> first
                /\ ~first => fibheap_minimum(m, h) = fibheap_minimum(Mem, h)
                /\ m.parent[x] = NULL
                /\ \A y \in Nodes \ {x} :
                      /\ m.parent[y] = parent[y]
                      /\ m.degree[y] = degree[y]
                      /\ m.value[y] = value[y]
                      /\ m.next[ChildOf(y)] = next[ChildOf(y)]
                      /\ m.prev[ChildOf(y)] = prev[ChildOf(y)]
                      /\ parent[y] # NULL =>
                           /\ m.next[ListOf(y)] = next[ListOf(y)]
                           /\ m.prev[ListOf(y)] = prev[ListOf(y)]

\* A heap of two roots, the first with children, into which one more node
\* can be inserted: with the minimum's key it goes to the tail, with a lower
\* key to the head.
C20_Witness ==
    /\ made < NumNodes
    /\ Len(Entries(Mem, RootOf(1))) = 2
    /\ \E y \in Live(1) : parent[y] = fibheap_minimum(Mem, 1)
    /\ value[fibheap_minimum(Mem, 1)] = MaxValue
    /\ fibheap_minimum(fibheap_insert(make_fibheap_node(Mem, made + 1, 1),
                                      1, made + 1), 1) = made + 1
    /\ fibheap_minimum(fibheap_insert(make_fibheap_node(Mem, made + 1,
                                                        MaxValue),
                                      1, made + 1), 1) # made + 1
    /\ C20_InsertEffect

\* C21: a heap returned by make_fibheap is empty with n == 0, and in every
\* state reached by operations on a heap, fibheap_is_empty(h) is true if
\* and only if h->n == 0.
C21_EmptyIffZero ==
    \A h \in Heaps :
        /\ fibheap_is_empty(make_fibheap(Mem, h), h)
        /\ make_fibheap(Mem, h).n[h] = 0
        /\ Usable(h) => (fibheap_is_empty(Mem, h) <=> heap_n[h] = 0)

\* h1 emptied again after it took h2's nodes in a union, while every node
\* was allocated.
C21_Witness ==
    /\ merged = {2}
    /\ made = NumNodes - 1
    /\ Live(1) = {}
    /\ fibheap_is_empty(Mem, 1)
    /\ heap_n[1] = 0
    /\ C21_EmptyIffZero

\* C22: from a reachable heap holding n nodes, the loop
\* while (!fibheap_is_empty(h)) fibheap_extract_min(h) ends after exactly n
\* rounds, and each round returns a node, different from all those before.
C22_DrainTerminates ==
    \A h \in Heaps : Usable(h) =>
        LET out == Drain(Mem, h, NumNodes + 1)
        IN  /\ Len(out) = heap_n[h]
            /\ \A i \in 1..Len(out) : out[i] # NULL /\ out[i] \in Nodes
            /\ NoDuplicates(out)

\* A heap of four nodes, two of them roots and one a marked child: the loop
\* runs four rounds.
C22_Witness ==
    /\ heap_n[1] = NumNodes - 1
    /\ Len(Entries(Mem, RootOf(1))) = 2
    /\ \E y \in Live(1) : parent[y] # NULL /\ FIBHEAP_TEST_MARK(degree[y])
    /\ Len(Drain(Mem, 1, NumNodes + 1)) = NumNodes - 1
    /\ C22_DrainTerminates

\* The number of BLACK nodes on every path from x down to nil, x not
\* counted and nil counted, or -1 when two such paths differ.
RECURSIVE BlackHeight(_, _, _)
BlackHeight(t, x, depth) ==
    IF x = nil THEN 0
    ELSE IF depth = 0 THEN -1
    ELSE LET l  == BlackHeight(t, t.left[x], depth - 1)
             r  == BlackHeight(t, t.right[x], depth - 1)
             bl == IF t.color[t.left[x]] = BLACK THEN 1 ELSE 0
             br == IF t.color[t.right[x]] = BLACK THEN 1 ELSE 0
         IN  IF l = -1 \/ r = -1 \/ l + bl # r + br THEN -1 ELSE l + bl

\* C23: rbtree_search(t, v) of rbtree.c returns a node of the tree whose key
\* compares equal to v when the tree holds one, and t->nil when it holds
\* none.
C23_SearchFinds ==
    \A v \in Keys :
        LET x == rbtree_search(rb, v)
        IN  IF \E z \in rb_in : rbtree_cmp(rb.value[z], v) = 0
            THEN x \in rb_in /\ rbtree_cmp(rb.value[x], v) = 0
            ELSE x = nil

\* The same statement for the copy of the search in rbtree.h.
C23_InlineSearchFinds ==
    \A v \in Keys :
        LET x == rbtree_search_inline(rb, v)
        IN  IF \E z \in rb_in : rbtree_cmp(rb.value[z], v) = 0
            THEN x \in rb_in /\ rbtree_cmp(rb.value[x], v) = 0
            ELSE x = nil

\* C24: the in-order walk visits exactly the nodes inserted and not deleted,
\* each once, in non-decreasing key order, and t->n is their number.
C24_WalkSorted ==
    LET w == rbtree_inorder_walk(rb)
    IN  /\ Range(w) = rb_in
        /\ NoDuplicates(w)
        /\ \A i \in 1..(Len(w) - 1) :
             rbtree_cmp(rb.value[w[i]], rb.value[w[i + 1]]) <= 0
        /\ rb.n = Cardinality(rb_in)

\* Every node was allocated and inserted, two were deleted, one of them the
\* first node; the four left hold equal keys and different keys.
C24_Witness ==
    /\ rb_made = NumRbNodes
    /\ Cardinality(rb_in) = NumRbNodes - 2
    /\ 1 \notin rb_in
    /\ \E y, z \in rb_in : y # z /\ rb.value[y] = rb.value[z]
    /\ \E y, z \in rb_in : rb.value[y] < rb.value[z]
    /\ Len(rbtree_inorder_walk(rb)) = NumRbNodes - 2
    /\ C24_WalkSorted

\* C25: the root and nil are BLACK, no RED node has a RED child, and all
\* paths from a node down to nil hold the same number of BLACK nodes.
C25_RedBlack ==
    /\ rb.color[nil] = BLACK
    /\ rb.color[rb.root] = BLACK
    /\ \A z \in rb_in :
         rb.color[z] = RED =>
           rb.color[rb.left[z]] = BLACK /\ rb.color[rb.right[z]] = BLACK
    /\ \A z \in rb_in : BlackHeight(rb, z, NumRbNodes + 1) # -1

\* A tree of five nodes left by a delete, with a RED node and a BLACK node
\* under the root.
C25_Witness ==
    /\ rb_made = NumRbNodes
    /\ Cardinality(rb_in) = NumRbNodes - 1
    /\ \E z \in rb_in : rb.color[z] = RED
    /\ \E z \in rb_in : z # rb.root /\ rb.color[z] = BLACK
    /\ BlackHeight(rb, rb.root, NumRbNodes + 1) = 2
    /\ C25_RedBlack

\* The shifts s at which pat occurs in txt.
Occurrences(txt, pat) ==
    {s \in 0..(Len(txt) - Len(pat)) :
        \A i \in 1..Len(pat) : txt[s + i] = pat[i]}

\* C26: strmatch_rk(txt, pat) returns the number of shifts at which pat
\* occurs in txt, overlaps counted, for every text and every non-empty
\* pattern not longer than it, bytes of 0x80 and above included.
C26_CountsOccurrences ==
    sm.occur # -1 => sm.occur = Cardinality(Occurrences(sm.txt, sm.pat))

\* The same statement for the calls in which char is unsigned or every byte
\* is below 0x80.
C26_CountsNonNegative ==
    /\ sm.occur # -1
    /\ \/ ~sm.signed_char
       \/ \A i \in 1..Len(sm.txt) : sm.txt[i] < 128
    => sm.occur = Cardinality(Occurrences(sm.txt, sm.pat))

\* Two different roots of h in m have the same degree.
SameDegreeRoots(m, h) ==
    LET es == Entries(m, RootOf(h))
    IN  \E i, j \in 1..Len(es) :
          /\ i # j
          /\ FIBHEAP_GET_DEGREE(m.degree[es[i]])
               = FIBHEAP_GET_DEGREE(m.degree[es[j]])

\* C27: when fibheap_extract_min or fibheap_delete returns and the heap is
\* not empty, no two roots have the same degree.
C27_DistinctDegrees ==
    \A h \in Heaps : Usable(h) =>
        /\ ~SameDegreeRoots(fibheap_extract_min(Mem, h).m, h)
        /\ \A x \in Live(h) : ~SameDegreeRoots(fibheap_delete(Mem, h, x), h)

\* Four roots of degree 0 and 1, two of them of the same degree, of which
\* extract_min leaves a heap of two roots and a deleted child one of three
\* nodes.
C27_Witness ==
    /\ heap_n[1] = NumNodes - 1
    /\ SameDegreeRoots(Mem, 1)
    /\ Len(Entries(fibheap_extract_min(Mem, 1).m, RootOf(1))) = 2
    /\ \E x \in Live(1) :
         /\ parent[x] # NULL
         /\ Len(Entries(fibheap_delete(Mem, 1, x), RootOf(1))) = 2
    /\ C27_DistinctDegrees

TableOf(S) ==
    [k \in 0..MemNodes |->
        IF \E y \in S : FIBHEAP_GET_DEGREE(degree[y]) = k
        THEN CHOOSE y \in S : FIBHEAP_GET_DEGREE(degree[y]) = k
        ELSE NULL]

\* C29: when the root x carried by the collision loop of consolidate meets
\* table entries whose keys compare equal to its own, x stays the carried
\* node and every entry met becomes a child of x.
C29_TieKeepsCarried ==
    \A h \in Heaps : Usable(h) =>
        LET roots == Range(Entries(Mem, RootOf(h)))
        IN  \A x \in roots : \A S \in SUBSET (roots \ {x}) :
              (/\ \A y \in S : cmp(value[y], value[x]) = 0
               /\ \A y, z \in S : y # z =>
                    FIBHEAP_GET_DEGREE(degree[y])
                      # FIBHEAP_GET_DEGREE(degree[z]))
              => LET d == FIBHEAP_GET_DEGREE(degree[x])
                     r == consolidate_collide(Mem, h, TableOf(S), x, d)
                 IN  /\ r.x = x
                     /\ r.m.parent[x] = parent[x]
                     /\ \A y \in S :
                          LET k == FIBHEAP_GET_DEGREE(degree[y])
                          IN  IF d <= k /\ k < r.d
                              THEN /\ r.m.parent[y] = x
                                   /\ r.A[k] = NULL
                                   /\ ListOf(y) \in
                                        Range(list_for_each(r.m, ChildOf(x),
                                              r.m.next[ChildOf(x)],
                                              2 * MemNodes + 3))
                              ELSE /\ r.m.parent[y] = parent[y]
                                   /\ r.A[k] = y

\* Two roots of degree 1 with equal keys: the carried one takes the other as
\* its child and has degree 2 afterwards.
C29_Witness ==
    /\ \E x, y \in Range(Entries(Mem, RootOf(1))) :
         /\ x # y
         /\ value[x] = value[y]
         /\ FIBHEAP_GET_DEGREE(degree[x]) = 1
         /\ FIBHEAP_GET_DEGREE(degree[y]) = 1
         /\ LET r == consolidate_collide(Mem, 1, TableOf({y}), x, 1)
            IN  /\ r.x = x
                /\ r.d = 2
                /\ r.m.parent[y] = x
                /\ FIBHEAP_GET_DEGREE(r.m.degree[x]) = 2
    /\ C29_TieKeepsCarried

\* y and its ancestors, upwards, as long as they are marked and have a
\* parent.
RECURSIVE MarkedChain(_, _)
MarkedChain(m, y) ==
    IF m.parent[y] # NULL /\ FIBHEAP_TEST_MARK(m.degree[y])
    THEN <<y>> \o MarkedChain(m, m.parent[y])
    ELSE <<>>

\* The first of y and its ancestors that is unmarked or has no parent.
RECURSIVE ChainStop(_, _)
ChainStop(m, y) ==
    IF m.parent[y] # NULL /\ FIBHEAP_TEST_MARK(m.degree[y])
    THEN ChainStop(m, m.parent[y])
    ELSE y

\* C30: cascading_cut(h, y) changes nothing when y has no parent; marks y
\* and changes nothing else when y has a parent and is unmarked; and when y
\* has a parent and is marked it cuts exactly y and the marked ancestors that
\* follow it without a gap: each is appended to the root list in that order,
\* unmarked, with parent NULL, its former parent's degree one lower and its
\* child list without it; the node above the chain becomes marked if it has
\* a parent, and nothing else changes.
C30_CascadeProtocol ==
    \A h \in Heaps : Usable(h) => \A y \in Live(h) :
        LET r       == cascading_cut(Mem, h, y)
            c       == MarkedChain(Mem, y)
            s       == ChainStop(Mem, y)
            lost(x) == Cardinality({k \in Range(c) : parent[k] = x})
            kept(x) == SelectSeq(Entries(Mem, ChildOf(x)),
                                 LAMBDA k : k \notin Range(c))
        IN  /\ parent[y] = NULL => r = Mem
            /\ parent[y] # NULL /\ ~FIBHEAP_TEST_MARK(degree[y]) =>
                 r = [Mem EXCEPT !.degree[y] = Word(1, degree[y].low)]
            /\ parent[y] # NULL /\ FIBHEAP_TEST_MARK(degree[y]) =>
                 /\ Len(c) >= 1 /\ c[1] = y
                 /\ Entries(r, RootOf(h)) = Entries(Mem, RootOf(h)) \o c
                 /\ \A x \in Range(c) :
                      /\ r.parent[x] = NULL
                      /\ ~FIBHEAP_TEST_MARK(r.degree[x])
                 /\ \A x \in Live(h) :
                      /\ FIBHEAP_GET_DEGREE(r.degree[x])
                           = FIBHEAP_GET_DEGREE(degree[x]) - lost(x)
                      /\ Entries(r, ChildOf(x)) = kept(x)
                 /\ \A x \in Live(h) \ Range(c) :
                      /\ r.parent[x] = parent[x]
                      /\ x # s => FIBHEAP_TEST_MARK(r.degree[x])
                                    = FIBHEAP_TEST_MARK(degree[x])
                 /\ FIBHEAP_TEST_MARK(r.degree[s])
                      = (parent[s] # NULL \/ FIBHEAP_TEST_MARK(degree[s]))
                 /\ \A x \in Nodes \ Live(h) :
                      /\ r.parent[x] = parent[x]
                      /\ r.degree[x] = degree[x]
                 /\ r.value = value /\ r.n = heap_n /\ r.oob = oob

\* A marked node whose parent is marked too and is a child of a root: the
\* cascading cut takes both to the root list and stops at the root.
C30_Witness ==
    /\ \E y \in Live(1) :
         /\ parent[y] # NULL
         /\ FIBHEAP_TEST_MARK(degree[y])
         /\ parent[parent[y]] # NULL
         /\ FIBHEAP_TEST_MARK(degree[parent[y]])
         /\ parent[parent[parent[y]]] = NULL
         /\ MarkedChain(Mem, y) = <<y, parent[y]>>
         /\ LET r == cascading_cut(Mem, 1, y)
            IN  /\ r.parent[y] = NULL
                /\ r.parent[parent[y]] = NULL
                /\ Len(Entries(r, RootOf(1)))
                     = Len(Entries(Mem, RootOf(1))) + 2
    /\ C30_CascadeProtocol

CutToRoots(m, h, y) ==
    /\ m.parent[y] = NULL
    /\ ~FIBHEAP_TEST_MARK(m.degree[y])
    /\ y \in Range(Entries(m, RootOf(h)))

\* C32: a marked node y that has a parent and loses a child x is itself cut
\* to the root list in the same call: by fibheap_decrease(h, x) when x's new
\* key outranks y's, and by the cut and cascading cut fibheap_delete(h, x)
\* starts with; when fibheap_delete returns, y is a root or was linked anew,
\* hence unmarked.  An unmarked y with a parent that loses x stays where it
\* is and becomes marked, so the second loss is the one that cuts it.
C32_SecondLossCuts ==
    \A h \in Heaps : Usable(h) => \A x \in Live(h) :
        LET y == parent[x]
        IN  (y # NULL /\ parent[y] # NULL) =>
              LET del == cascading_cut(cut(Mem, h, x, y), h, y)
                  end == fibheap_delete(Mem, h, x)
              IN  /\ \A v \in Values : v < value[y] =>
                       LET dec == fibheap_decrease(
                                      [Mem EXCEPT !.value[x] = v], h, x)
                       IN  IF FIBHEAP_TEST_MARK(degree[y])
                           THEN CutToRoots(dec, h, y)
                           ELSE /\ dec.parent[y] = parent[y]
                                /\ FIBHEAP_TEST_MARK(dec.degree[y])
                  /\ IF FIBHEAP_TEST_MARK(degree[y])
                     THEN /\ CutToRoots(del, h, y)
                          /\ ~FIBHEAP_TEST_MARK(end.degree[y])
                     ELSE /\ del.parent[y] = parent[y]
                          /\ FIBHEAP_TEST_MARK(del.degree[y])

\* A marked node with a parent and a child left, whose key can still be
\* lowered below the node's own.
C32_Witness ==
    /\ \E x \in Live(1) :
         /\ parent[x] # NULL
         /\ parent[parent[x]] # NULL
         /\ FIBHEAP_TEST_MARK(degree[parent[x]])
         /\ value[parent[x]] > 1
         /\ CutToRoots(fibheap_decrease([Mem EXCEPT !.value[x] = 1], 1, x),
                       1, parent[x])
    /\ C32_SecondLossCuts

\* fibheap_extract_min of a non-empty heap up to the test before
\* consolidate: z's children are on the root list and z is off it.
extract_detach(m, h) ==
    LET z  == FIBHEAP_GET_MIN_NODE(m, h)
        m1 == IF ~list_empty(m, ChildOf(z))
              THEN extract_promote(m, h, ChildOf(z), m.next[ChildOf(z)],
                                   m.next[m.next[ChildOf(z)]])
              ELSE m
    IN  FIBHEAP_REMOVE_FROM_LIST(m1, z)

\* The number of ancestors of y; the climb is cut after more steps than
\* there are nodes.
RECURSIVE Depth(_, _, _)
Depth(m, y, fuel) ==
    IF m.parent[y] = NULL \/ fuel = 0 THEN 0
    ELSE 1 + Depth(m, m.parent[y], fuel - 1)

\* The nodes of S that have a parent in m0 and none in m1: those a cut took
\* to the root list.
CutBetween(m0, m1, S) ==
    {k \in S : m0.parent[k] # NULL /\ m1.parent[k] = NULL}

\* C33: every call of fibheap_extract_min, fibheap_decrease and
\* fibheap_delete on a reachable heap returns, and the work is bounded: the
\* consolidate run of extract_min links at most (roots - 1) times, one link
\* per root that leaves the root list, and cascading_cut(h, y) cuts at most
\* depth(y) nodes, fibheap_decrease(h, x) at most depth(x).
C33_BoundedWork ==
    \A h \in Heaps : Usable(h) =>
        /\ ~fibheap_is_empty(Mem, h) =>
             LET b     == extract_detach(Mem, h)
                 roots == Entries(b, RootOf(h))
                 a     == IF roots # <<>> THEN consolidate(b, h) ELSE b
                 links == Cardinality({y \in Range(roots) :
                                          a.parent[y] # NULL})
             IN  /\ [a EXCEPT !.n[h] = @ - 1]
                      = fibheap_extract_min(Mem, h).m
                 /\ roots # <<>> =>
                      /\ links <= Len(roots) - 1
                      /\ links = Len(roots) - Len(Entries(a, RootOf(h)))
        /\ \A y \in Live(h) :
             /\ Depth(Mem, y, MemNodes + 1) <= MemNodes
             /\ Cardinality(CutBetween(Mem, cascading_cut(Mem, h, y),
                                       Live(h)))
                  <= Depth(Mem, y, MemNodes + 1)
             /\ \A v \in Values : v <= value[y] =>
                  LET m0 == [Mem EXCEPT !.value[y] = v]
                  IN  Cardinality(CutBetween(m0, fibheap_decrease(m0, h, y),
                                             Live(h)))
                        <= Depth(Mem, y, MemNodes + 1)
             /\ fibheap_delete(Mem, h, y).n[h] = heap_n[h] - 1

\* Both bounds are met: a node two levels down whose cascading cut takes
\* two nodes to the root list, in a heap whose extract_min leaves two roots
\* to consolidate, which one link joins.
C33_Witness ==
    /\ \E y \in Live(1) :
         /\ Depth(Mem, y, MemNodes + 1) = 2
         /\ Cardinality(CutBetween(Mem, cascading_cut(Mem, 1, y), Live(1)))
              = 2
    /\ Len(Entries(extract_detach(Mem, 1), RootOf(1))) = 2
    /\ Len(Entries(fibheap_extract_min(Mem, 1).m, RootOf(1))) = 1
    /\ C33_BoundedWork

\* In m, among the nodes S of heap h: a node is on the root list exactly
\* when its parent is NULL, and on p's child list exactly when its parent
\* is p.
ParentsAgree(m, h, S) ==
    \A k \in S :
        /\ k \in Range(Entries(m, RootOf(h))) <=> m.parent[k] = NULL
        /\ \A p \in S :
             k \in Range(Entries(m, ChildOf(p))) <=> m.parent[k] = p

\* C34: between operations parent pointers agree with list membership, a
\* node being on the root list iff its parent is NULL and on p's child list
\* iff its parent is p; this also holds after fibheap_decrease, and the node
\* that fibheap_decrease moves to the front of the root list has parent
\* NULL.
C34_ParentsAgree ==
    \A h \in Heaps : Usable(h) =>
        /\ ParentsAgree(Mem, h, Live(h))
        /\ \A x \in Live(h) : \A v \in Values : v <= value[x] =>
             LET m0  == [Mem EXCEPT !.value[x] = v]
                 dec == fibheap_decrease(m0, h, x)
             IN  /\ ParentsAgree(dec, h, Live(h))
                 /\ FIBHEAP_GET_MIN_NODE(dec, h) = x => dec.parent[x] = NULL

\* A child whose key is decreased below the minimum's: it is cut and then
\* moved to the front of the root list.
C34_Witness ==
    /\ \E x \in Live(1) : \E v \in Values :
         /\ parent[x] # NULL
         /\ cmp(v, value[FIBHEAP_GET_MIN_NODE(Mem, 1)]) < 0
         /\ FIBHEAP_GET_MIN_NODE(
                fibheap_decrease([Mem EXCEPT !.value[x] = v], 1, x), 1) = x
    /\ C34_ParentsAgree

\* The cells that list_for_each visits from head, in order.
CellsFrom(m, head) == list_for_each(m, head, m.next[head], 2 * MemNodes + 3)

\* The list at head is a circular doubly-linked ring: the walk along next
\* comes back to head having met each member once, and next and prev are
\* inverse of each other at the head and at every member.
RingOk(m, head) ==
    LET cells == CellsFrom(m, head)
    IN  /\ Len(cells) <= 2 * MemNodes + 2
        /\ NoDuplicates(cells)
        /\ \A e \in Range(cells) \cup {head} :
             /\ m.prev[m.next[e]] = e
             /\ m.next[m.prev[e]] = e

\* C35: after every heap operation the root list of the heap and the child
\* list of each of its nodes are well-formed circular doubly-linked rings:
\* e->next->prev == e and e->prev->next == e for the head and every member,
\* and the walk along next from the head returns to the head after visiting
\* each member once.
C35_RingsWellFormed ==
    \A h \in Heaps : Usable(h) =>
        /\ RingOk(Mem, RootOf(h))
        /\ \A x \in Live(h) : RingOk(Mem, ChildOf(x))

\* After a union: a root ring of two or more members, one of which has a
\* child ring that is not empty.
C35_Witness ==
    /\ merged # {}
    /\ \E h \in Heaps : Usable(h) /\ Len(CellsFrom(Mem, RootOf(h))) >= 2
         /\ \E x \in Live(h) : Len(CellsFrom(Mem, ChildOf(x))) >= 1
    /\ C35_RingsWellFormed

\* C36: fibheap_union of two non-empty heaps leaves heap2's shell as it
\* was: heap2->n keeps its value, heap2->root_list.next and .prev still
\* point at heap2's former first and last roots, which are now members of
\* heap1's ring, and fibheap_is_empty(heap2) is still false.
C36_ShellUntouched ==
    \A heap1, heap2 \in Heaps :
        (/\ heap1 # heap2 /\ Usable(heap1) /\ Usable(heap2)
         /\ ~fibheap_is_empty(Mem, heap1)
         /\ ~fibheap_is_empty(Mem, heap2))
        => LET r     == fibheap_union(Mem, heap1, heap2)
               cells == CellsFrom(Mem, RootOf(heap2))
               ring  == Range(CellsFrom(r.m, RootOf(heap1)))
           IN  /\ r.ret = heap1
               /\ r.m.n[heap2] = heap_n[heap2]
               /\ r.m.next[RootOf(heap2)] = cells[1]
               /\ r.m.prev[RootOf(heap2)] = cells[Len(cells)]
               /\ cells[1] \in ring
               /\ cells[Len(cells)] \in ring
               /\ RootOf(heap2) \notin ring
               /\ ~fibheap_is_empty(r.m, heap2)

\* After a union of two non-empty heaps: heap2 is merged away, its n is two
\* or more, and its root_list.next and .prev point at two different nodes
\* that are members of heap1's ring, the first of them at the front.
C36_Witness ==
    /\ merged = {2}
    /\ heap_n[2] >= 2
    /\ heap_n[1] > heap_n[2]
    /\ ~fibheap_is_empty(Mem, 2)
    /\ next[RootOf(2)] # prev[RootOf(2)]
    /\ next[RootOf(2)] = next[RootOf(1)]
    /\ prev[RootOf(2)] \in Range(CellsFrom(Mem, RootOf(1)))

\* The heap invariants of h in m over the nodes S: rings well-formed,
\* parents agreeing with list membership, degree equal to the number of
\* children, n equal to the number of reachable nodes, which are S, and
\* extraction in sorted order.
HeapOk(m, h, S) ==
    /\ RingOk(m, RootOf(h))
    /\ \A x \in S : RingOk(m, ChildOf(x))
    /\ ParentsAgree(m, h, S)
    /\ \A x \in S :
         FIBHEAP_GET_DEGREE(m.degree[x]) = Len(CellsFrom(m, ChildOf(x)))
    /\ Range(Reachable(m, h)) = S
    /\ m.n[h] = Cardinality(S)
    /\ KeysOf(m, Drain(m, h, MemNodes + 1)) = SortedKeys(m, S, 1)

\* C37: the node fibheap_extract_min returns can be passed to
\* fibheap_insert again as it is, whether or not it had children when it
\* was extracted, and the heap invariants hold afterwards: n equals the
\* number of reachable nodes, degree equals the number of children, rings
\* are well-formed and extraction is sorted.
C37_ReinsertAsReturned ==
    \A h \in Heaps : (Usable(h) /\ ~fibheap_is_empty(Mem, h)) =>
        LET r == fibheap_extract_min(Mem, h)
        IN  HeapOk(fibheap_insert(r.m, h, r.ret), h, Live(h))

\* C38: the mark in the top bit of the degree word and the degree in the
\* low bits do not disturb each other.  Every parent has a masked degree of
\* 1 or more, so y->degree-- in cut never borrows from the mark bit: it
\* lowers GET_DEGREE(y) by exactly 1 and keeps y's mark, and the RESET_MARK
\* of x keeps GET_DEGREE(x).  x->degree++ in link raises GET_DEGREE(x) by
\* exactly 1 and keeps x's mark, and the RESET_MARK of y keeps
\* GET_DEGREE(y).  The SET_MARK of cascading_cut keeps GET_DEGREE(y).
C38_MarkAndDegreeApart ==
    \A h \in Heaps : Usable(h) =>
        /\ \A x \in Live(h) : parent[x] # NULL =>
             LET y == parent[x]
                 c == cut(Mem, h, x, y)
                 s == cascading_cut(Mem, h, x)
             IN  /\ FIBHEAP_GET_DEGREE(degree[y]) >= 1
                 /\ FIBHEAP_GET_DEGREE(c.degree[y])
                      = FIBHEAP_GET_DEGREE(degree[y]) - 1
                 /\ FIBHEAP_TEST_MARK(c.degree[y])
                      = FIBHEAP_TEST_MARK(degree[y])
                 /\ FIBHEAP_GET_DEGREE(c.degree[x])
                      = FIBHEAP_GET_DEGREE(degree[x])
                 /\ ~FIBHEAP_TEST_MARK(c.degree[x])
                 /\ ~FIBHEAP_TEST_MARK(degree[x]) =>
                      /\ FIBHEAP_TEST_MARK(s.degree[x])
                      /\ FIBHEAP_GET_DEGREE(s.degree[x])
                           = FIBHEAP_GET_DEGREE(degree[x])
        /\ \A x, y \in Live(h) :
             (x # y /\ parent[x] = NULL /\ parent[y] = NULL) =>
             LET l == link(Mem, y, x)
             IN  /\ FIBHEAP_GET_DEGREE(l.degree[x])
                      = FIBHEAP_GET_DEGREE(degree[x]) + 1
                 /\ FIBHEAP_TEST_MARK(l.degree[x])
                      = FIBHEAP_TEST_MARK(degree[x])
                 /\ FIBHEAP_GET_DEGREE(l.degree[y])
                      = FIBHEAP_GET_DEGREE(degree[y])
                 /\ ~FIBHEAP_TEST_MARK(l.degree[y])

\* A marked child that has a child of its own: the cut of the lower one
\* decrements a marked word, the cut of the upper one resets the mark of a
\* word that holds a degree; an unmarked child with children, which
\* cascading_cut marks; and two roots, one with children, for link.
C38_Witness ==
    /\ \E x \in Live(1) :
         /\ parent[x] # NULL
         /\ FIBHEAP_TEST_MARK(degree[x])
         /\ FIBHEAP_GET_DEGREE(degree[x]) >= 1
         /\ \E k \in Live(1) : parent[k] = x
    /\ \E x \in Live(1) :
         /\ parent[x] # NULL
         /\ ~FIBHEAP_TEST_MARK(degree[x])
         /\ FIBHEAP_GET_DEGREE(degree[x]) >= 1
    /\ \E x, y \in Live(1) :
         /\ x # y /\ parent[x] = NULL /\ parent[y] = NULL
         /\ FIBHEAP_GET_DEGREE(degree[x]) >= 2
    /\ C38_MarkAndDegreeApart

====
